---- MODULE Spec2Model ----
(***************************************************************************)
(* A model of the distributed caching proxy: the two cache engines of the  *)
(* proxy node (proxy/cache_utils.py), the node-health registry             *)
(* (load_balancer/node_manager.py) and the load balancer's proxy selection,*)
(* forwarding and metrics polling (load_balancer/load_balancer.py).        *)
(*                                                                         *)
(* Each component has its own specification over the shared variables:     *)
(*   SpecLRU  - one LRUCache, calls of get and set                         *)
(*   SpecTTL  - one TTLCache, calls of get and set, and the passage of time*)
(*   SpecRegistry - the NodeManager alone, its methods called in any order *)
(*   Spec     - the load balancer: handler threads and the polling thread  *)
(*   SpecMetrics - the ProxyMetrics counters alone, record_* called by     *)
(*              concurrent threads                                         *)
(*   SpecProxy - one proxy node: concurrent handle_connection threads over *)
(*              its cache, its metrics counters and the origin             *)
(*   SpecForward - the load balancer's handling of a client connection:    *)
(*              pick_proxy, forward_request and the response               *)
(*   SpecLocked - one cache engine called by several threads, statement by *)
(*              statement under its lock                                   *)
(*   SpecSystem - the load balancer with its proxy nodes and the origin,   *)
(*              for requests sent one after the other                      *)
(*   SpecPoller - the polling thread alone, which keeps running           *)
(*   SpecThreads - the threads of both servers: their I/O steps and the    *)
(*              calls in which they hold a lock                            *)
(***************************************************************************)
EXTENDS Integers, Sequences, FiniteSets, TLC

(***************************************************************************)
(* Bounds of the model.                                                    *)
(***************************************************************************)
\* number of distinct cache keys the callers use
NumKeys == 3
\* largest LRU capacity a cache is constructed with
MaxCapacity == 2
\* number of distinct keys the callers of the TTL cache use
NumTTLKeys == 2
\* largest ttl (in clock ticks) a TTL cache is constructed with
MaxTTL == 2
\* the clock of the TTL model stops at this tick
MaxTime == 4

\* number of proxies the load balancer is configured with
NumProxies == 2
\* number of client connections the load balancer handles at the same time
NumHandlers == 2
\* largest total_requests a polled metrics snapshot reports
MaxLoad == 1
\* the failure counter of a node stops growing at this value
MaxFailureCount == 4
\* the same bound where handler threads and the polling thread interleave
MaxNodeFailures == 3
\* no new request is accepted once the round-robin cursor may reach this value
MaxIndex == 3
\* number of requests one client after the other sends to the load balancer
\* under round robin
MaxForwards == 7

\* number of connections a proxy node handles at the same time
NumConns == 2
\* number of distinct cache keys the clients of a proxy node ask for
NumCacheKeys == 2
\* number of well-formed GET requests a proxy node receives
MaxRequests == 2
\* number of record_* calls the threads of the metrics model make
MaxCalls == 3
\* the clock of a proxy node with a TTL cache stops at this tick
MaxProxyTime == 2
\* largest number of whitespace characters around the body of a line
MaxPad == 1

\* number of threads that call one cache engine at the same time
NumWorkers == 2
\* number of distinct keys those threads use
NumWorkerKeys == 2
\* number of calls those threads make in total
MaxOps == 3

\* number of threads of the proxy node and the load balancer that run at the
\* same time
NumThreads == 3

Keys == 1..NumKeys
TTLKeys == 1..NumTTLKeys
Values == {"v1", "v2"}
\* Python's None, as a value and as the result of a failed lookup
None == "None"

VARIABLES
  \* ---- LRUCache (proxy/cache_utils.py) ----
  capacity,     \* LRUCache.capacity
  lru,          \* [store, heap]: LRUCache.store and the ListNode objects
  lru_call,     \* the call that has just returned: [op, key, value, ret] and the
                \* keys present before it
  lru_recency,  \* history: the keys in the order of their latest successful get or set
  \* ---- TTLCache (proxy/cache_utils.py) ----
  ttl,          \* TTLCache.ttl
  ttl_store,    \* TTLCache.store: key -> [value, exp]
  now,          \* datetime.now(), in ticks
  ttl_call,     \* the call that has just returned: [op, key, value, ret]
  ttl_last_set, \* history: key -> [value, at, over] of the latest set(key, value):
                \* its time and the entry it overwrote
  \* ---- NodeManager (load_balancer/node_manager.py) ----
  proxy_list,   \* the configured proxies, in order (NodeManager.proxy_list and
                \* LoadBalancer.proxy_list)
  nodes,        \* NodeManager.nodes: proxy -> [healthy, failures]
  streak,       \* history: proxy -> number of mark_unhealthy calls since the
                \* latest mark_healthy call (or since construction)
  reg_call,     \* the registry call that has just returned: [op, proxy, ret, flag]
  \* ---- LoadBalancer (load_balancer/load_balancer.py) ----
  strategy,     \* LoadBalancer.strategy
  proxy_stats,  \* LoadBalancer.proxy_stats: proxy -> total_requests of the
                \* last-known snapshot, or NoSnapshot
  current_index,\* LoadBalancer.current_index
  handler,      \* the handle_client threads: position and local variables
  poller,       \* the metrics_loop thread: position and local variables
  client,       \* a handle_client thread followed from the request to the
                \* response: position, local variables and the response sent
  \* ---- ProxyNode (proxy/proxy_node.py) and ProxyMetrics (proxy/metrics.py) ----
  cache_type,   \* "ttl" or "lru": the engine of ProxyNode.cache (the engine's
                \* state is ttl, ttl_store, now or capacity, lru above)
  proxy_metrics,\* ProxyNode.proxy_metrics: the four counters
  conn,         \* the handle_connection threads: position and local variables
  accepted,     \* history: number of well-formed GET requests received
  \* ---- threads that call one cache engine (proxy/cache_utils.py) ----
  lock,         \* Cache.lock: the thread that holds it, or NoOwner
  worker,       \* the calling threads: position and local variables
  serial,       \* history: the engine and the result that the calls returned
                \* so far give when they run one after the other
  issued,       \* history: number of calls made
  \* ---- a load balancer with its proxy nodes and the origin ----
  fleet,        \* proxy -> TTLCache.store of the ProxyNode at that address
  served,       \* history: for every request answered, the proxy it was
                \* forwarded to, the time and the response
  \* ---- the threads of the system, their I/O and the locks they take ----
  thread,       \* thread -> the function it runs, its position and how many
                \* times it has entered the lock of the call it is in
  holder        \* lock -> the thread that holds it, or NoOwner

lru_vars == <<capacity, lru, lru_call, lru_recency>>
ttl_vars == <<ttl, ttl_store, now, ttl_call, ttl_last_set>>
lb_vars == <<proxy_list, nodes, streak, reg_call, strategy, proxy_stats, current_index, handler, poller>>
fw_vars == <<client>>
px_vars == <<cache_type, proxy_metrics, conn, accepted>>
lk_vars == <<lock, worker, serial, issued>>
sys_vars == <<fleet, served>>
io_vars == <<thread, holder>>
vars == <<lru_vars, ttl_vars, lb_vars, fw_vars, px_vars, lk_vars, sys_vars, io_vars>>

(***************************************************************************)
(* Helpers on functions used as Python dicts.                              *)
(***************************************************************************)
\* d[k] = v (insert or overwrite)
DictSet(d, k, v) == [x \in (DOMAIN d) \cup {k} |-> IF x = k THEN v ELSE d[x]]
\* d.pop(k) of a key that may be absent (pop(k, None))
DictPop(d, k) == [x \in (DOMAIN d) \ {k} |-> d[x]]
EmptyDict == [x \in {} |-> None]

(***************************************************************************)
(* ListNode and LRUCache.  A ListNode object is a heap cell named by an    *)
(* integer; head and tail are the two sentinel cells.                      *)
(***************************************************************************)
head == 0
tail == -1
\* a next/prev field holding None
NoNode == -2

\* ListNode.__init__(key, value, next=None, prev=None)
ListNode(key, value) == [key |-> key, value |-> value, next |-> NoNode, prev |-> NoNode]

\* a new object: the least cell that no reference reaches
NewCell(c) == CHOOSE n \in 1..(Cardinality(DOMAIN c.heap)) : n \notin DOMAIN c.heap

\* Objects to which no reference is left (not in the store, not linked) are
\* reclaimed: Python's reference counting.
Reachable(c) ==
  {head, tail} \cup {c.store[k] : k \in DOMAIN c.store}
  \cup {c.heap[n].next : n \in DOMAIN c.heap} \cup {c.heap[n].prev : n \in DOMAIN c.heap}
Collect(c) ==
  [c EXCEPT !.heap = [n \in (DOMAIN c.heap) \cap Reachable(c) |-> c.heap[n]]]

\* LRUCache.__init__
LRUCache_init ==
  [store |-> EmptyDict,
   heap  |-> [n \in {head, tail} |->
                IF n = head
                  THEN [key |-> "head", value |-> "", next |-> tail, prev |-> NoNode]
                  ELSE [key |-> "tail", value |-> "", next |-> NoNode, prev |-> head]]]

\* Cache.size
size(c) == Cardinality(DOMAIN c.store)

\* LRUCache._delete(node)
_delete(c, node) ==
  LET h1 == [c.heap EXCEPT ![c.heap[node].prev].next = c.heap[node].next]
      h2 == [h1 EXCEPT ![h1[node].next].prev = h1[node].prev]
      h3 == [h2 EXCEPT ![node].prev = NoNode, ![node].next = NoNode]
  IN [store |-> DictPop(c.store, c.heap[node].key), heap |-> h3]

\* mutant: the tail sentinel is not told of the new last node
_add_to_end_one_way(c, node) ==
  LET previous == c.heap[tail].prev
      h1 == [c.heap EXCEPT ![previous].next = node]
      h2 == [h1 EXCEPT ![node].prev = previous, ![node].next = tail]
  IN [c EXCEPT !.heap = h2]

\* LRUCache._add_to_end(node)
_add_to_end(c, node) ==
  LET previous == c.heap[tail].prev
      h1 == [c.heap EXCEPT ![previous].next = node]
      h2 == [h1 EXCEPT ![node].prev = previous, ![node].next = tail]
      h3 == [h2 EXCEPT ![tail].prev = node]
  IN [c EXCEPT !.heap = h3]

\* mutant: get returns the value and leaves the node where it is
LRUCache_get_no_promote(c, key) ==
  IF key \notin DOMAIN c.store
    THEN [cache |-> c, ret |-> <<None, FALSE>>]
    ELSE [cache |-> c, ret |-> <<c.heap[c.store[key]].value, TRUE>>]

\* LRUCache.get(key): the cache after the call and the returned tuple
LRUCache_get(c, key) ==
  IF key \notin DOMAIN c.store
    THEN [cache |-> c, ret |-> <<None, FALSE>>]
    ELSE LET node == c.store[key]
             c1 == _delete(c, node)
             c2 == _add_to_end(c1, node)
             c3 == [c2 EXCEPT !.store = DictSet(c2.store, key, node)]
         IN [cache |-> c3, ret |-> <<c3.heap[node].value, TRUE>>]

\* mutant: the eviction compares with the wrong limit
Evict_late(c, cap) ==
  IF size(c) > cap + 1 THEN _delete(c, c.heap[head].next) ELSE c

\* mutant: the eviction removes the node at the tail end, the most recently
\* used, instead of the least recently used
Evict_wrong_end(c, cap) ==
  IF size(c) > cap THEN _delete(c, c.heap[tail].prev) ELSE c

\* the eviction at the end of LRUCache.set
Evict(c, cap) ==
  IF size(c) > cap THEN _delete(c, c.heap[head].next) ELSE c

\* LRUCache.set(key, value): the cache after the call
LRUCache_set(c, cap, key, value) ==
  LET found == key \in DOMAIN c.store
      node == IF found THEN c.store[key] ELSE NewCell(c)
      c1 == IF found
              THEN _delete([c EXCEPT !.heap[node].value = value], node)
              ELSE [c EXCEPT !.heap = DictSet(c.heap, node, ListNode(key, value))]
      c2 == _add_to_end(c1, node)
      c3 == [c2 EXCEPT !.store = DictSet(c2.store, key, node)]
  IN Collect(Evict(c3, cap))

\* the history of uses: key becomes the latest used
Touch(rec, key) == SelectSeq(rec, LAMBDA x : x # key) \o <<key>>

\* no call has been made yet
NoCall == [op |-> "init", key |-> 0, value |-> None, ret |-> <<None, FALSE>>, before |-> {}]

LRUInit ==
  /\ capacity \in 1..MaxCapacity
  /\ lru = LRUCache_init
  /\ lru_call = NoCall
  /\ lru_recency = <<>>

\* a caller's cache.get(key)
LRUGet(key) ==
  LET r == LRUCache_get(lru, key) IN
  /\ lru' = r.cache
  /\ lru_call' = [op |-> "get", key |-> key, value |-> None, ret |-> r.ret,
                  before |-> DOMAIN lru.store]
  /\ lru_recency' = IF r.ret[2] THEN Touch(lru_recency, key) ELSE lru_recency
  /\ UNCHANGED capacity

\* a caller's cache.set(key, value)
LRUSet(key, value) ==
  /\ lru' = LRUCache_set(lru, capacity, key, value)
  /\ lru_call' = [op |-> "set", key |-> key, value |-> value, ret |-> <<None, FALSE>>,
                  before |-> DOMAIN lru.store]
  /\ lru_recency' = Touch(lru_recency, key)
  /\ UNCHANGED capacity

(***************************************************************************)
(* TTLCache.  Time is a tick counter; datetime.now() reads it.             *)
(***************************************************************************)
\* TTLCache.delete(key)
TTLCache_delete(store, key) == DictPop(store, key)

\* mutant: an entry counts as expired already at its expiry time
Expired_at_expiry(t, exp) == t >= exp

\* the expiry test of TTLCache.get: datetime.now() > exp
Expired(t, exp) == t > exp

\* TTLCache.get(key) at time t: the store after the call and the returned tuple
TTLCache_get(store, key, t) ==
  IF key \notin DOMAIN store
    THEN [store |-> store, ret |-> <<None, FALSE>>]
    ELSE IF Expired(t, store[key].exp)
      THEN [store |-> TTLCache_delete(store, key), ret |-> <<None, FALSE>>]
      ELSE [store |-> store, ret |-> <<store[key].value, TRUE>>]

\* mutant: a set on a present key keeps the expiry the entry already has
TTLCache_set_keeps_expiry(store, key, value, t, d) ==
  DictSet(store, key, [value |-> value,
                       exp |-> IF key \in DOMAIN store THEN store[key].exp ELSE t + d])

\* TTLCache.set(key, value) at time t with ttl d
TTLCache_set(store, key, value, t, d) ==
  DictSet(store, key, [value |-> value, exp |-> t + d])

NoTTLCall == [op |-> "init", key |-> 0, value |-> None, ret |-> <<None, FALSE>>]

\* history: what a set overwrote when its key was not in the store
NoEntry == [value |-> None, exp |-> -1]

TTLInit ==
  /\ ttl \in 1..MaxTTL
  /\ ttl_store = EmptyDict
  /\ now = 0
  /\ ttl_call = NoTTLCall
  /\ ttl_last_set = EmptyDict

\* time passes
Tick ==
  /\ now < MaxTime
  /\ now' = now + 1
  /\ ttl_call' = [op |-> "tick", key |-> 0, value |-> None, ret |-> <<None, FALSE>>]
  /\ UNCHANGED <<ttl, ttl_store, ttl_last_set>>

\* a caller's cache.get(key)
TTLGet(key) ==
  LET r == TTLCache_get(ttl_store, key, now) IN
  /\ ttl_store' = r.store
  /\ ttl_call' = [op |-> "get", key |-> key, value |-> None, ret |-> r.ret]
  /\ UNCHANGED <<ttl, now, ttl_last_set>>

\* a caller's cache.set(key, value)
TTLSet(key, value) ==
  /\ ttl_store' = TTLCache_set(ttl_store, key, value, now, ttl)
  /\ ttl_call' = [op |-> "set", key |-> key, value |-> value, ret |-> <<None, FALSE>>]
  /\ ttl_last_set' = DictSet(ttl_last_set, key,
                               [value |-> value, at |-> now,
                                over |-> IF key \in DOMAIN ttl_store
                                           THEN ttl_store[key] ELSE NoEntry])
  /\ UNCHANGED <<ttl, now>>


(***************************************************************************)
(* NodeManager.                                                            *)
(***************************************************************************)
\* the configured proxies, in configured order (a proxy is named by its
\* position-independent number, as by its (host, port) in the code)
ConfiguredList == [i \in 1..NumProxies |-> i]
Proxies == {proxy_list[i] : i \in 1..Len(proxy_list)}

\* NodeManager.max_failures
max_failures == 3

\* NodeManager.__init__
NodeManager_init == [p \in Proxies |-> [healthy |-> TRUE, failures |-> 0]]

\* mutant: mark_healthy sets the flag and leaves the failure count
mark_healthy_keeps_count(ns, p) == [ns EXCEPT ![p].healthy = TRUE]

\* NodeManager.mark_healthy(host, port), under the lock
mark_healthy(ns, p) == [ns EXCEPT ![p] = [healthy |-> TRUE, failures |-> 0]]

\* mutant: the node is flipped only when the count exceeds max_failures
mark_unhealthy_late(ns, p) ==
  LET f == ns[p].failures + 1 IN
  [ns EXCEPT ![p] = [healthy |-> IF f > 3 THEN FALSE ELSE ns[p].healthy,
                     failures |-> f]]

\* NodeManager.mark_unhealthy(host, port), under the lock
mark_unhealthy(ns, p) ==
  LET f == ns[p].failures + 1 IN
  [ns EXCEPT ![p] = [healthy |-> IF f >= max_failures THEN FALSE ELSE ns[p].healthy,
                     failures |-> f]]

\* mutant: no fallback to the full list
get_healthy_nodes_no_fallback(ns) == SelectSeq(proxy_list, LAMBDA x : ns[x].healthy)

\* NodeManager.get_healthy_nodes(), under the lock
get_healthy_nodes(ns) ==
  LET healthy_nodes == SelectSeq(proxy_list, LAMBDA x : ns[x].healthy) IN
  IF healthy_nodes # <<>> THEN healthy_nodes ELSE proxy_list

\* NodeManager.is_healthy(host, port), under the lock
is_healthy(ns, p) == ns[p].healthy

\* no proxy (an argument or a local variable that is not set)
NoProxy == 0

\* no call of the registry has been made yet
NoRegCall == [op |-> "init", proxy |-> NoProxy, ret |-> <<>>, flag |-> FALSE]

\* some thread's call of mark_healthy(host, port)
MarkHealthy(p) ==
  /\ nodes' = mark_healthy(nodes, p)
  /\ streak' = [streak EXCEPT ![p] = 0]
  /\ reg_call' = [op |-> "mark_healthy", proxy |-> p, ret |-> <<>>, flag |-> FALSE]

\* some thread's call of mark_unhealthy(host, port)
MarkUnhealthy(p) ==
  /\ nodes[p].failures < MaxFailureCount
  /\ nodes' = mark_unhealthy(nodes, p)
  /\ streak' = [streak EXCEPT ![p] = @ + 1]
  /\ reg_call' = [op |-> "mark_unhealthy", proxy |-> p, ret |-> <<>>, flag |-> FALSE]

\* some thread's call of get_healthy_nodes()
GetHealthyNodes ==
  /\ reg_call' = [op |-> "get_healthy_nodes", proxy |-> NoProxy,
                  ret |-> get_healthy_nodes(nodes), flag |-> FALSE]
  /\ UNCHANGED <<proxy_list, nodes, streak>>

\* some thread's call of is_healthy(host, port)
IsHealthy(p) ==
  /\ reg_call' = [op |-> "is_healthy", proxy |-> p, ret |-> <<>>,
                  flag |-> is_healthy(nodes, p)]
  /\ UNCHANGED <<proxy_list, nodes, streak>>

(***************************************************************************)
(* LoadBalancer: pick_proxy, forward_request and metrics_loop.  A thread   *)
(* takes one step per access to shared state; the steps of different       *)
(* threads interleave.                                                     *)
(***************************************************************************)
Handlers == 1..NumHandlers
\* proxy_stats[p] is None
NoSnapshot == -1

\* a handler thread that has not accepted a connection
\* (seen and views are history: the proxies that were marked healthy when the
\* registry was read, and the answers that the states of the metrics map
\* during the call ask for)
IdleHandler ==
  [pc |-> "idle", healthy_proxies |-> <<>>, seen |-> {}, views |-> {}, k |-> 0, tmp |-> 0,
   i |-> 0, best |-> NoProxy, best_key |-> 0, proxy |-> NoProxy]

\* the position of a proxy in the configured list
Position(p) == CHOOSE i \in 1..Len(proxy_list) : proxy_list[i] = p
\* the load least_loaded counts for a proxy: a missing snapshot counts as 0
Load(stats, p) == IF stats[p] = NoSnapshot THEN 0 ELSE stats[p]
\* the candidate with the smallest load in the metrics map `stats`, the
\* earliest in the configured list among those with equal load
LeastLoaded(candidates, stats) ==
  LET C == {candidates[i] : i \in 1..Len(candidates)} IN
  CHOOSE c \in C : \A d \in C :
    \/ Load(stats, c) < Load(stats, d)
    \/ Load(stats, c) = Load(stats, d) /\ Position(c) <= Position(d)

\* the polling thread at the start of a cycle
StartOfCycle == [pc |-> "request", i |-> 1, metrics |-> NoSnapshot]

\* LoadBalancer.__init__
LBInit ==
  /\ proxy_list = ConfiguredList
  /\ nodes = NodeManager_init
  /\ streak = [p \in Proxies |-> 0]
  /\ reg_call = NoRegCall
  /\ strategy \in {"round_robin", "least_loaded"}
  /\ proxy_stats = [p \in Proxies |-> NoSnapshot]
  /\ current_index = 0
  /\ handler = [t \in Handlers |-> IdleHandler]
  /\ poller = StartOfCycle

\* the handler threads that are inside pick_proxy under round robin and have
\* not yet stored the cursor
Incrementing == {t \in Handlers : handler[t].pc \in {"rr_index", "rr_load", "rr_store"}}

\* pick_proxy, line 193-195: the candidates are read from the registry
PickHealthy(t) ==
  /\ handler[t].pc = "idle"
  /\ strategy = "round_robin" => current_index + Cardinality(Incrementing) < MaxIndex
  /\ handler' = [handler EXCEPT ![t] =
       [IdleHandler EXCEPT
          !.pc = IF strategy = "round_robin" THEN "rr_index" ELSE "ll_test",
          !.healthy_proxies = get_healthy_nodes(nodes),
          !.seen = {p \in Proxies : is_healthy(nodes, p)},
          !.views = IF strategy = "least_loaded"
                      THEN {LeastLoaded(get_healthy_nodes(nodes), proxy_stats)} ELSE {},
          !.i = 1]]
  /\ UNCHANGED <<proxy_list, nodes, streak, reg_call, strategy, proxy_stats, current_index, poller>>

\* mutant: round robin stays on the first candidate
RoundRobinChoice_first(candidates, k) == candidates[1]

\* the proxy round robin takes for cursor value k among the candidates
RoundRobinChoice(candidates, k) == candidates[(k % Len(candidates)) + 1]

\* pick_proxy, line 197-198: the cursor is read and the proxy chosen
RRIndex(t) ==
  /\ handler[t].pc = "rr_index"
  /\ handler' = [handler EXCEPT ![t].pc = "rr_load",
                                ![t].k = current_index,
                                ![t].proxy = RoundRobinChoice(handler[t].healthy_proxies, current_index)]
  /\ UNCHANGED <<proxy_list, nodes, streak, reg_call, strategy, proxy_stats, current_index, poller>>

\* pick_proxy, line 199: self.current_index += 1 reads the cursor ...
RRLoad(t) ==
  /\ handler[t].pc = "rr_load"
  /\ handler' = [handler EXCEPT ![t].pc = "rr_store", ![t].tmp = current_index]
  /\ UNCHANGED <<proxy_list, nodes, streak, reg_call, strategy, proxy_stats, current_index, poller>>

\* ... and stores the value read plus one
RRStore(t) ==
  /\ handler[t].pc = "rr_store"
  /\ current_index' = handler[t].tmp + 1
  /\ handler' = [handler EXCEPT ![t] =
       [IdleHandler EXCEPT !.pc = "picked", !.proxy = handler[t].proxy]]
  /\ UNCHANGED <<proxy_list, nodes, streak, reg_call, strategy, proxy_stats, poller>>

\* min(healthy_proxies, key=...): the key of candidate number i has been
\* computed; min keeps the first candidate with the smallest key
Consider(h, key) ==
  LET c == h.healthy_proxies[h.i]
      better == h.i = 1 \/ key < h.best_key
      h1 == IF better THEN [h EXCEPT !.best = c, !.best_key = key] ELSE h
  IN IF h.i = Len(h.healthy_proxies)
       THEN [IdleHandler EXCEPT !.pc = "picked", !.proxy = h1.best]
       ELSE [h1 EXCEPT !.pc = "ll_test", !.i = h.i + 1]

\* pick_proxy, line 204: the test `if self.proxy_stats[client]` of the key
LLTest(t) ==
  LET h == handler[t]
      c == h.healthy_proxies[h.i]
  IN /\ h.pc = "ll_test"
     /\ handler' = [handler EXCEPT ![t] =
          IF proxy_stats[c] # NoSnapshot
            THEN [h EXCEPT !.pc = "ll_read"]
            ELSE Consider(h, 0)]
     /\ UNCHANGED <<proxy_list, nodes, streak, reg_call, strategy, proxy_stats, current_index, poller>>

\* pick_proxy, line 204: self.proxy_stats[client]["total_requests"], a second
\* read of the map; subscripting None raises TypeError
LLRead(t) ==
  LET h == handler[t]
      c == h.healthy_proxies[h.i]
  IN /\ h.pc = "ll_read"
     /\ handler' = [handler EXCEPT ![t] =
          IF proxy_stats[c] = NoSnapshot THEN [IdleHandler EXCEPT !.pc = "raised"]
                                         ELSE Consider(h, proxy_stats[c])]
     /\ UNCHANGED <<proxy_list, nodes, streak, reg_call, strategy, proxy_stats, current_index, poller>>

\* handle_client: an exception leaves the `with conn` block and ends the thread
HandlerDied(t) ==
  /\ handler[t].pc = "raised"
  /\ handler' = [handler EXCEPT ![t] = IdleHandler]
  /\ UNCHANGED <<proxy_list, nodes, streak, reg_call, strategy, proxy_stats, current_index, poller>>

\* forward_request to the picked proxy: the proxy answers a JSON line (ok) or
\* it cannot be reached or answers otherwise; the thread then ends
Forward(t, ok) ==
  LET p == handler[t].proxy IN
  /\ handler[t].pc = "picked"
  /\ ok \/ nodes[p].failures < MaxNodeFailures
  /\ nodes' = IF ok THEN mark_healthy(nodes, p) ELSE mark_unhealthy(nodes, p)
  /\ streak' = [streak EXCEPT ![p] = IF ok THEN 0 ELSE @ + 1]
  /\ handler' = [handler EXCEPT ![t] = IdleHandler]
  /\ UNCHANGED <<proxy_list, reg_call, strategy, proxy_stats, current_index, poller>>

\* a field that a JSON object does not have
Absent == "absent"

\* What a proxy does with a METRICS poll: the connection is refused, breaks
\* while the request is sent or the reply is read, is closed without a reply
\* (eof), or a line arrives: not JSON (garbage), JSON that is not an object
\* (scalar), or an object with or without the fields status and data.  A
\* data field holds a snapshot (its total_requests) or a false value such as
\* null or {} (NoSnapshot).
PollBehaviours ==
  [io : {"refused", "send_failed", "read_failed", "eof"}, json : {"none"},
   status : {Absent}, has_data : {FALSE}, data : {NoSnapshot}]
  \cup [io : {"line"}, json : {"garbage", "scalar"}, status : {Absent},
        has_data : {FALSE}, data : {NoSnapshot}]
  \cup [io : {"line"}, json : {"object"}, status : {"OK"}, has_data : {TRUE},
        data : {NoSnapshot} \cup (0..MaxLoad)]
  \cup [io : {"line"}, json : {"object"}, status : {"OK", "BAD_REQUEST", Absent},
        has_data : {FALSE}, data : {NoSnapshot}]
  \cup [io : {"line"}, json : {"object"}, status : {"BAD_REQUEST"}, has_data : {TRUE},
        data : {0}]

\* LoadBalancer.request_metrics: the value returned (NoSnapshot for None) or
\* an exception that leaves it (only connect() and json.loads() are inside a
\* try/except)
request_metrics(b) ==
  IF b.io = "refused" THEN [raised |-> FALSE, ret |-> NoSnapshot]
  ELSE IF b.io \in {"send_failed", "read_failed"} THEN [raised |-> TRUE, ret |-> NoSnapshot]
  ELSE IF b.io = "eof" THEN [raised |-> FALSE, ret |-> NoSnapshot]
  ELSE IF b.json = "garbage" THEN [raised |-> FALSE, ret |-> NoSnapshot]
  ELSE IF b.json = "scalar" THEN [raised |-> TRUE, ret |-> NoSnapshot]
  ELSE IF b.status = Absent THEN [raised |-> TRUE, ret |-> NoSnapshot]
  ELSE IF b.status = "OK" /\ b.has_data THEN [raised |-> FALSE, ret |-> b.data]
  ELSE [raised |-> FALSE, ret |-> NoSnapshot]

\* metrics_loop, line 298-303: request_metrics returns and its result is
\* stored: the snapshot `if metrics`, None otherwise
PollStore(b) ==
  LET p == proxy_list[poller.i]
      m == request_metrics(b).ret
  IN /\ poller.pc = "request"
     /\ ~request_metrics(b).raised
     /\ m # NoSnapshot \/ nodes[p].failures < MaxNodeFailures
     /\ proxy_stats' = [proxy_stats EXCEPT ![p] = m]
     /\ poller' = [poller EXCEPT !.pc = "mark", !.metrics = m]
     /\ handler' = [t \in Handlers |->
          IF handler[t].pc \in {"ll_test", "ll_read"}
            THEN [handler[t] EXCEPT !.views =
                    @ \cup {LeastLoaded(handler[t].healthy_proxies, proxy_stats')}]
            ELSE handler[t]]
     /\ UNCHANGED <<proxy_list, nodes, streak, reg_call, strategy, current_index>>

\* metrics_loop, line 298 and 305: request_metrics raises; the exception
\* leaves the for loop and is caught by the except clause of the while loop
PollRaise(b) ==
  /\ poller.pc = "request"
  /\ request_metrics(b).raised
  /\ poller' = [poller EXCEPT !.pc = "except"]
  /\ UNCHANGED <<proxy_list, nodes, streak, reg_call, strategy, proxy_stats, current_index,
                 handler>>

\* metrics_loop, line 305-307 and 294-297: the exception is printed, and
\* `continue` goes to the next iteration of the while loop, which starts the
\* for loop again at the first proxy
PollContinue ==
  /\ poller.pc = "except"
  /\ poller' = StartOfCycle
  /\ UNCHANGED <<proxy_list, nodes, streak, reg_call, strategy, proxy_stats, current_index,
                 handler>>

\* metrics_loop, line 301 and 304: the node is marked, and the loop goes on
\* to the next proxy (after the last one, to the next cycle)
PollMark ==
  LET p == proxy_list[poller.i]
      ok == poller.metrics # NoSnapshot
  IN /\ poller.pc = "mark"
     /\ nodes' = IF ok THEN mark_healthy(nodes, p) ELSE mark_unhealthy(nodes, p)
     /\ streak' = [streak EXCEPT ![p] = IF ok THEN 0 ELSE @ + 1]
     /\ poller' = [StartOfCycle EXCEPT
                     !.i = IF poller.i = Len(proxy_list) THEN 1 ELSE poller.i + 1]
     /\ UNCHANGED <<proxy_list, reg_call, strategy, proxy_stats, current_index, handler>>

\* the load balancer not exercised
LBIdle ==
  /\ proxy_list = ConfiguredList
  /\ nodes = NodeManager_init
  /\ streak = [p \in Proxies |-> 0]
  /\ reg_call = NoRegCall
  /\ strategy = "round_robin"
  /\ proxy_stats = [p \in Proxies |-> NoSnapshot]
  /\ current_index = 0
  /\ handler = [t \in Handlers |-> IdleHandler]
  /\ poller = StartOfCycle

(***************************************************************************)
(* ProxyMetrics and ProxyNode.  A handle_connection thread takes one step  *)
(* per access to shared state (a counter, the cache) and per exchange with *)
(* the origin; the steps of different threads interleave.  A call of the   *)
(* cache runs under the cache's lock and is one step.                      *)
(***************************************************************************)
Conns == 1..NumConns
CacheKeys == 1..NumCacheKeys
\* ProxyNode.port, the "node" field of a response
port == "port"

Counters == {"total_requests", "cache_hits", "cache_misses", "origin_fetches"}
\* ProxyMetrics.__init__
ProxyMetrics_init == [k \in Counters |-> 0]
\* ProxyMetrics.report(), without start_time and hit_rate
report(m) == [total_requests |-> m["total_requests"], hits |-> m["cache_hits"],
              misses |-> m["cache_misses"], origin_fetches |-> m["origin_fetches"]]


\* the two parts that url.split("/", 1) gives for the second word of some
\* request lines: the first part holds no "/"
Resources == {"a", "ab"}
KeyParts == {"c", "bc", "b/c"}
\* ProxyNode.build_cache_key
build_cache_key(resource, key) == resource \o "/" \o key

\* The request line after strip(): its first word, the number of words that
\* split(" ") gives, the number of parts that split("/", 1) gives for the
\* second word, and the cache key that resource + "/" + key spells.
Requests == [method : {"METRICS", "GET", "PUT"}, words : 1..3, parts : 1..2, key : CacheKeys]

\* handle_connection, line 114-136: what the request is taken for
Classify(req) ==
  IF req.method = "METRICS" /\ req.words = 1 THEN "METRICS"
  ELSE IF req.words # 2 THEN "BAD_REQUEST"
  ELSE IF req.method # "GET" THEN "WRONG_METHOD"
  ELSE IF req.parts # 2 THEN "BAD_REQUEST"
  ELSE "GET"

\* mutant: the request is counted before it is parsed
Dispatch_count_first(kind) == "record_request"

\* handle_connection, line 114-140: a METRICS request and a rejected request
\* are answered at once, a well-formed GET goes on to record_request
Dispatch(kind) == IF kind = "GET" THEN "record_request" ELSE "respond"

\* What the origin does with a fetch: the connection is refused, breaks while
\* the request is sent or the reply is read, is closed without a reply (eof),
\* or a line arrives: not JSON (garbage), JSON that is not an object
\* (scalar), or an object with or without the fields status and data.
OriginBehaviours ==
  [io : {"refused", "send_failed", "read_failed", "eof"}, json : {"none"},
   status : {Absent}, data : {Absent}]
  \cup [io : {"line"}, json : {"garbage", "scalar"}, status : {Absent}, data : {Absent}]
  \cup [io : {"line"}, json : {"object"}, status : {"OK"}, data : Values \cup {Absent}]
  \cup [io : {"line"}, json : {"object"},
        status : {"NOT_FOUND", "WRONG_METHOD", Absent}, data : {"message"}]
NoOrigin == [io |-> "none", json |-> "none", status |-> Absent, data |-> Absent]

\* the outcomes of fetch_from_origin: a returned tuple or an exception that
\* leaves the function; `closed`: the finally block has closed the socket
Returned(value, status) == [raised |-> FALSE, ret |-> <<value, status>>, closed |-> TRUE]
Raised == [raised |-> TRUE, ret |-> <<None, "none">>, closed |-> TRUE]

\* ProxyNode.fetch_from_origin
fetch_from_origin(b) ==
  IF b.io = "refused" THEN Returned(None, "ORIGIN_FAILURE")
  ELSE IF b.io \in {"send_failed", "read_failed"} THEN Raised
  ELSE IF b.io = "eof" THEN Returned(None, "ORIGIN_FAILURE")
  ELSE IF b.json = "garbage" THEN Returned(None, "ORIGIN_FAILURE")
  ELSE IF b.json = "scalar" THEN Raised
  ELSE IF b.status = Absent THEN Raised
  ELSE IF b.status = "OK"
    THEN (IF b.data = Absent THEN Raised ELSE Returned(b.data, "OK"))
  ELSE IF b.status = "NOT_FOUND" THEN Returned(None, "NOT_FOUND")
  ELSE Returned(None, "ORIGIN_FAILURE")

\* mutant: whatever the origin returned is put in the cache
ShouldStore_always(status) == TRUE

\* handle_connection, line 154: if status == "OK"
ShouldStore(status) == status = "OK"

\* ProxyNode.build_response, as the JSON object it serialises
build_response(status, data, cache_hit) ==
  [status |-> status, data |-> data, cache_hit |-> cache_hit, node |-> port]

\* a thread that has not accepted a connection
\* (method is the first word of a request line that is rejected; calls,
\* delta and origin are history: the calls the request has made so far, by
\* how much the stores of this request have changed each counter, and what
\* the origin did with the fetch of this request)
IdleConn ==
  [pc |-> "idle", kind |-> "none", method |-> "none", key |-> 0,
   loaded |-> FALSE, tmp |-> 0, found |-> FALSE, value |-> None, status |-> "none",
   calls |-> <<>>, delta |-> [k \in Counters |-> 0], origin |-> NoOrigin]

\* the response a thread at "respond" sends
Response(h) ==
  IF h.kind = "METRICS" THEN [status |-> "OK", data |-> "report", cache_hit |-> FALSE, node |-> port]
  ELSE IF h.kind = "WRONG_METHOD"
    THEN build_response("WRONG_METHOD: " \o h.method, "", FALSE)
  ELSE IF h.kind = "BAD_REQUEST" THEN build_response("BAD_REQUEST", "reason", FALSE)
  ELSE IF h.found THEN build_response("OK", h.value, TRUE)
  ELSE build_response(h.status, h.value, FALSE)

\* ProxyNode.__init__
ProxyInit ==
  /\ cache_type \in {"ttl", "lru"}
  /\ proxy_metrics = ProxyMetrics_init
  /\ conn = [c \in Conns |-> IdleConn]
  /\ accepted = 0

\* handle_connection, line 106-136: the request is read and parsed
Receive(c, req) ==
  LET kind == Classify(req) IN
  /\ conn[c].pc = "idle"
  /\ kind = "GET" => accepted < MaxRequests
  /\ conn' = [conn EXCEPT ![c] =
       [IdleConn EXCEPT !.pc = Dispatch(kind), !.kind = kind,
                        !.method = IF kind \in {"WRONG_METHOD", "BAD_REQUEST"}
                                     THEN req.method ELSE "none",
                        !.key = IF kind = "GET" THEN req.key ELSE 0]]
  /\ accepted' = IF kind = "GET" THEN accepted + 1 ELSE accepted
  /\ UNCHANGED <<cache_type, proxy_metrics, capacity, lru, ttl, ttl_store, now>>

RecordPcs == {"record_request", "record_hit", "record_miss", "record_origin_fetch"}
\* the counter a record_* method increments
CounterOf(pc) ==
  CASE pc = "record_request" -> "total_requests"
    [] pc = "record_hit" -> "cache_hits"
    [] pc = "record_miss" -> "cache_misses"
    [] pc = "record_origin_fetch" -> "origin_fetches"
\* what follows a record_* call: in handle_connection (line 140-152) the
\* next statement; for a thread that called the method alone, nothing
AfterRecord(kind, pc) ==
  IF kind = "call" THEN "idle"
  ELSE CASE pc = "record_request" -> "get"
         [] pc = "record_hit" -> "respond"
         [] pc = "record_miss" -> "record_origin_fetch"
         [] pc = "record_origin_fetch" -> "fetch"

\* a thread calls one of the record_* methods of ProxyMetrics
MetricsCall(c, m) ==
  /\ conn[c].pc = "idle"
  /\ accepted < MaxCalls
  /\ conn' = [conn EXCEPT ![c] = [IdleConn EXCEPT !.pc = m, !.kind = "call"]]
  /\ accepted' = accepted + 1
  /\ UNCHANGED <<cache_type, proxy_metrics, capacity, lru, ttl, ttl_store, now>>

\* self.<counter> += 1 reads the counter ...
RecordLoad(c) ==
  LET h == conn[c] IN
  /\ h.pc \in RecordPcs
  /\ ~h.loaded
  /\ conn' = [conn EXCEPT ![c].loaded = TRUE, ![c].tmp = proxy_metrics[CounterOf(h.pc)]]
  /\ UNCHANGED <<cache_type, proxy_metrics, accepted, capacity, lru, ttl, ttl_store, now>>

\* ... and stores the value read plus one
RecordStore(c) ==
  LET h == conn[c]
      k == CounterOf(h.pc)
  IN /\ h.pc \in RecordPcs
     /\ h.loaded
     /\ proxy_metrics' = [proxy_metrics EXCEPT ![k] = h.tmp + 1]
     /\ conn' = [conn EXCEPT ![c] =
          IF AfterRecord(h.kind, h.pc) = "idle" THEN IdleConn
          ELSE [h EXCEPT !.loaded = FALSE, !.tmp = 0,
                         !.pc = AfterRecord(h.kind, h.pc),
                         !.calls = Append(@, h.pc),
                         !.delta[k] = @ + (h.tmp + 1) - proxy_metrics[k]]]
     /\ UNCHANGED <<cache_type, accepted, capacity, lru, ttl, ttl_store, now>>

\* handle_connection, line 141: value, found = self.cache.get(cache_key)
Lookup(c) ==
  LET h == conn[c]
      ret == IF cache_type = "lru" THEN LRUCache_get(lru, h.key).ret
                                   ELSE TTLCache_get(ttl_store, h.key, now).ret
  IN /\ h.pc = "get"
     /\ lru' = IF cache_type = "lru" THEN LRUCache_get(lru, h.key).cache ELSE lru
     /\ ttl_store' = IF cache_type = "ttl" THEN TTLCache_get(ttl_store, h.key, now).store
                                           ELSE ttl_store
     /\ conn' = [conn EXCEPT ![c].value = ret[1], ![c].found = ret[2],
                             ![c].calls = Append(@, "get"),
                             ![c].pc = IF ret[2] THEN "record_hit" ELSE "record_miss"]
     /\ UNCHANGED <<cache_type, proxy_metrics, accepted, capacity, ttl, now>>

\* handle_connection, line 152-154: value, status = self.fetch_from_origin(...)
Fetch(c, b) ==
  LET h == conn[c]
      r == fetch_from_origin(b)
  IN /\ h.pc = "fetch"
     /\ conn' = [conn EXCEPT ![c] =
          IF r.raised
            THEN [h EXCEPT !.pc = "raised", !.calls = Append(@, "fetch"), !.origin = b]
            ELSE [h EXCEPT !.value = r.ret[1], !.status = r.ret[2],
                           !.calls = Append(@, "fetch"), !.origin = b,
                           !.pc = IF ShouldStore(r.ret[2]) THEN "set" ELSE "respond"]]
     /\ UNCHANGED <<cache_type, proxy_metrics, accepted, capacity, lru, ttl, ttl_store, now>>

\* handle_connection, line 155: self.cache.set(cache_key, value)
CacheSet(c) ==
  LET h == conn[c] IN
  /\ h.pc = "set"
  /\ lru' = IF cache_type = "lru" THEN LRUCache_set(lru, capacity, h.key, h.value) ELSE lru
  /\ ttl_store' = IF cache_type = "ttl" THEN TTLCache_set(ttl_store, h.key, h.value, now, ttl)
                                        ELSE ttl_store
  /\ conn' = [conn EXCEPT ![c].pc = "respond", ![c].calls = Append(@, "set")]
  /\ UNCHANGED <<cache_type, proxy_metrics, accepted, capacity, ttl, now>>

\* handle_connection: conn.sendall(res) and the end of the thread
Respond(c) ==
  /\ conn[c].pc = "respond"
  /\ conn' = [conn EXCEPT ![c] = IdleConn]
  /\ UNCHANGED <<cache_type, proxy_metrics, accepted, capacity, lru, ttl, ttl_store, now>>

\* handle_connection: an exception of fetch_from_origin leaves the `with
\* conn` block; the connection is closed without a response
ConnDied(c) ==
  /\ conn[c].pc = "raised"
  /\ conn' = [conn EXCEPT ![c] = IdleConn]
  /\ UNCHANGED <<cache_type, proxy_metrics, accepted, capacity, lru, ttl, ttl_store, now>>

\* datetime.now() of a proxy with a TTL cache advances
ProxyTick ==
  /\ cache_type = "ttl"
  /\ now < MaxProxyTime
  /\ now' = now + 1
  /\ UNCHANGED <<px_vars, capacity, lru, ttl, ttl_store>>

\* the proxy node not exercised
ProxyIdle ==
  /\ cache_type = "lru"
  /\ proxy_metrics = ProxyMetrics_init
  /\ conn = [c \in Conns |-> IdleConn]
  /\ accepted = 0

(***************************************************************************)
(* LoadBalancer.handle_client from the request to the response: pick_proxy *)
(* (here run without interference from other threads), forward_request     *)
(* against every behaviour of the proxy, and the response to the client.   *)
(***************************************************************************)
\* A string read from or written to a socket, as far as strip(), json.loads
\* and the test `if first_line` tell strings apart: the number of whitespace
\* characters before and after the body, the body, and whether a "\n" ends it.
EmptyBody == [kind |-> "empty", status |-> Absent]
Bodies ==
  {EmptyBody, [kind |-> "garbage", status |-> Absent], [kind |-> "scalar", status |-> Absent]}
  \cup [kind : {"object"}, status : {"OK", "NOT_FOUND", "BAD_REQUEST"}]
Lines == [lead : 0..MaxPad, body : Bodies, trail : 0..MaxPad, newline : BOOLEAN]
\* the string ""
EmptyString == [lead |-> 0, body |-> EmptyBody, trail |-> 0, newline |-> FALSE]

\* str.strip()
strip(s) == [s EXCEPT !.lead = 0, !.trail = 0, !.newline = FALSE]
\* s + "\n", for a string that does not end with "\n"
AddNewline(s) == [s EXCEPT !.newline = TRUE]
\* json.loads(s) returns (it raises otherwise)
json_loads(s) == s.body.kind \in {"scalar", "object"}
\* json.dumps({"status": status, "data": ...}) + "\n"
StatusLine(status) ==
  [lead |-> 0, body |-> [kind |-> "object", status |-> status], trail |-> 0, newline |-> TRUE]

\* What the picked proxy does with a forward: the connection is refused,
\* breaks while the request is sent or the reply is read, or readline()
\* returns a string (the empty string when the proxy closes without a reply).
ProxyBehaviours ==
  [io : {"refused", "send_failed", "read_failed"}, line : {EmptyString}]
  \cup [io : {"read"}, line : Lines]
NoBehaviour == [io |-> "none", line |-> EmptyString]

\* mutant: the candidates are not read from the registry
pick_proxy_any(ns, strat, idx, stats) ==
  IF Len(proxy_list) = 0 THEN [raised |-> TRUE, proxy |-> NoProxy, index |-> idx]
  ELSE IF strat = "round_robin"
    THEN [raised |-> FALSE, proxy |-> RoundRobinChoice(proxy_list, idx), index |-> idx + 1]
  ELSE [raised |-> FALSE, proxy |-> LeastLoaded(proxy_list, stats), index |-> idx]

\* LoadBalancer.pick_proxy, run without interference: the proxy returned and
\* the cursor after the call, or an exception (ZeroDivisionError of `%`,
\* ValueError of min) when there is no candidate
pick_proxy(ns, strat, idx, stats) ==
  LET healthy == get_healthy_nodes(ns)
      healthy_proxies == IF healthy = <<>> THEN proxy_list ELSE healthy
  IN IF strat = "round_robin"
       THEN IF Len(healthy_proxies) = 0
              THEN [raised |-> TRUE, proxy |-> NoProxy, index |-> idx]
              ELSE [raised |-> FALSE, proxy |-> RoundRobinChoice(healthy_proxies, idx),
                    index |-> idx + 1]
     ELSE IF strat = "least_loaded"
       THEN IF Len(healthy_proxies) = 0
              THEN [raised |-> TRUE, proxy |-> NoProxy, index |-> idx]
              ELSE [raised |-> FALSE, proxy |-> LeastLoaded(healthy_proxies, stats),
                    index |-> idx]
     ELSE [raised |-> FALSE, proxy |-> NoProxy, index |-> idx]

\* mutant: a reply that parses is relayed without marking the proxy healthy
forward_request_no_mark(b) ==
  IF b.io = "refused"
    THEN [raised |-> FALSE, mark |-> "unhealthy", res |-> StatusLine("PROXY_UNREACHABLE")]
  ELSE IF b.io \in {"send_failed", "read_failed"}
    THEN [raised |-> TRUE, mark |-> "none", res |-> EmptyString]
  ELSE IF b.line = EmptyString \/ ~json_loads(strip(b.line))
    THEN [raised |-> FALSE, mark |-> "unhealthy", res |-> StatusLine("PROXY_UNREACHABLE")]
  ELSE [raised |-> FALSE, mark |-> "none", res |-> AddNewline(strip(b.line))]

\* LoadBalancer.forward_request: the registry call it makes and the string it
\* returns, or an exception that leaves it (only connect() is inside a
\* try/except; sendall() and readline() are not)
forward_request(b) ==
  IF b.io = "refused"
    THEN [raised |-> FALSE, mark |-> "unhealthy", res |-> StatusLine("PROXY_UNREACHABLE")]
  ELSE IF b.io \in {"send_failed", "read_failed"}
    THEN [raised |-> TRUE, mark |-> "none", res |-> EmptyString]
  ELSE IF b.line = EmptyString
    THEN [raised |-> FALSE, mark |-> "unhealthy", res |-> StatusLine("PROXY_UNREACHABLE")]
  ELSE LET j_string == strip(b.line) IN
       IF ~json_loads(j_string)
         THEN [raised |-> FALSE, mark |-> "unhealthy", res |-> StatusLine("PROXY_UNREACHABLE")]
         ELSE [raised |-> FALSE, mark |-> "healthy", res |-> AddNewline(j_string)]

\* a handle_client thread that has not accepted a connection
\* (reply and before are history: what the proxy did with the forward, and
\* the failure count of the proxy before it)
IdleClient ==
  [pc |-> "idle", proxy |-> NoProxy, reply |-> NoBehaviour, before |-> 0, res |-> EmptyString]

ClientIdle == client = IdleClient

\* LoadBalancer.__init__ with a list of any length (main() refuses to start
\* without proxies; the class accepts the empty list)
ForwardInit ==
  /\ proxy_list \in {SubSeq(ConfiguredList, 1, n) : n \in 0..NumProxies}
  /\ nodes = NodeManager_init
  /\ streak = [p \in Proxies |-> 0]
  /\ reg_call = NoRegCall
  /\ strategy \in {"round_robin", "least_loaded"}
  /\ proxy_stats = [p \in Proxies |-> NoSnapshot]
  /\ current_index = 0
  /\ handler = [t \in Handlers |-> IdleHandler]
  /\ poller = StartOfCycle
  /\ client = IdleClient

\* handle_client, line 122-171: a request other than METRICS is read and a
\* proxy picked; without a proxy the response is PROXY_ERROR
ClientPick ==
  LET r == pick_proxy(nodes, strategy, current_index, proxy_stats) IN
  /\ client.pc = "idle"
  /\ strategy = "round_robin" => current_index < MaxForwards
  /\ current_index' = r.index
  /\ client' = IF r.raised THEN [IdleClient EXCEPT !.pc = "raised"]
               ELSE IF r.proxy = NoProxy
                 THEN [IdleClient EXCEPT !.pc = "send", !.res = StatusLine("PROXY_ERROR")]
               ELSE [IdleClient EXCEPT !.pc = "forward", !.proxy = r.proxy]
  /\ UNCHANGED <<proxy_list, nodes, streak, reg_call, strategy, proxy_stats, handler, poller>>

\* handle_client, line 155-165: res = self.forward_request(...); a false res
\* is replaced by a PROXY_UNREACHABLE response
ClientForward(b) ==
  LET p == client.proxy
      r == forward_request(b)
  IN /\ client.pc = "forward"
     /\ nodes[p].failures < MaxFailureCount
     /\ nodes' = IF r.mark = "healthy" THEN mark_healthy(nodes, p)
                 ELSE IF r.mark = "unhealthy" THEN mark_unhealthy(nodes, p)
                 ELSE nodes
     /\ streak' = [streak EXCEPT ![p] = IF r.mark = "healthy" THEN 0
                                        ELSE IF r.mark = "unhealthy" THEN @ + 1 ELSE @]
     /\ client' = [client EXCEPT
          !.pc = IF r.raised THEN "raised" ELSE "send",
          !.reply = b,
          !.before = nodes[p].failures,
          !.res = IF r.raised THEN EmptyString
                  ELSE IF r.res # EmptyString THEN r.res
                  ELSE StatusLine("PROXY_UNREACHABLE")]
     /\ UNCHANGED <<proxy_list, reg_call, strategy, proxy_stats, current_index, handler, poller>>

\* handle_client: conn.sendall(...) and the end of the thread
ClientSend ==
  /\ client.pc = "send"
  /\ client' = IdleClient
  /\ UNCHANGED lb_vars

\* handle_client: an exception leaves the `with conn` block; the connection
\* is closed without a response
ClientDied ==
  /\ client.pc = "raised"
  /\ client' = IdleClient
  /\ UNCHANGED lb_vars

(***************************************************************************)
(* Specifications.                                                         *)
(***************************************************************************)
(* One cache engine called by several threads.  get and set run their      *)
(* statements one step at a time under `with self.lock`; Cache.size takes  *)
(* no lock.                                                                *)
(***************************************************************************)
Workers == 1..NumWorkers
WorkerKeys == 1..NumWorkerKeys
\* the RLock is not held
NoOwner == 0

\* a thread that is not inside a call (ret and len: what its latest get or
\* set, or its latest size(), returned)
IdleWorker ==
  [pc |-> "idle", op |-> "none", key |-> 0, value |-> None, node |-> NoNode, exp |-> 0,
   t |-> 0, ret |-> <<None, FALSE>>, len |-> 0]

\* Cache.__init__ / LRUCache.__init__: the lock is free
LockedInit ==
  /\ lock = NoOwner
  /\ worker = [w \in Workers |-> IdleWorker]
  /\ serial = [lru |-> LRUCache_init, ttl |-> EmptyDict, ret |-> <<None, FALSE>>]
  /\ issued = 0

\* mutant: the lock excludes no thread
CanAcquire_any(owner, w) == TRUE

\* RLock.acquire succeeds when the lock is free or held by the same thread
CanAcquire(owner, w) == owner \in {NoOwner, w}

\* the engine and the result when call h, which read the clock at h.t, runs
\* on its own after the calls that returned before it
SerialAfter(h) ==
  IF cache_type = "lru"
    THEN IF h.op = "get"
           THEN [serial EXCEPT !.lru = LRUCache_get(serial.lru, h.key).cache,
                               !.ret = LRUCache_get(serial.lru, h.key).ret]
           ELSE [serial EXCEPT !.lru = LRUCache_set(serial.lru, capacity, h.key, h.value),
                               !.ret = <<None, FALSE>>]
    ELSE IF h.op = "get"
           THEN [serial EXCEPT !.ttl = TTLCache_get(serial.ttl, h.key, h.t).store,
                               !.ret = TTLCache_get(serial.ttl, h.key, h.t).ret]
           ELSE [serial EXCEPT !.ttl = TTLCache_set(serial.ttl, h.key, h.value, h.t, ttl),
                               !.ret = <<None, FALSE>>]

\* the end of the `with self.lock` block of call h: the lock is released and
\* the call returns r
Leave(w, h, r) ==
  /\ lock' = NoOwner
  /\ worker' = [worker EXCEPT ![w] = [IdleWorker EXCEPT !.ret = r]]
  /\ serial' = SerialAfter(h)

\* an exception leaves the `with self.lock` block: the lock is released
Raise(w) ==
  /\ lock' = IF lock = w THEN NoOwner ELSE lock
  /\ worker' = [worker EXCEPT ![w] = [IdleWorker EXCEPT !.ret = <<"raised", FALSE>>]]
  /\ serial' = serial

\* a ListNode object is reclaimed when no reference is left, neither in the
\* cache nor in a local variable of another thread
Reclaim(c, w) ==
  [c EXCEPT !.heap =
     [n \in (DOMAIN c.heap) \cap (Reachable(c) \cup {worker[u].node : u \in Workers \ {w}})
        |-> c.heap[n]]]

\* a thread calls cache.get(key), cache.set(key, value) or cache.size()
CacheCall(w, op, key, value) ==
  /\ worker[w].pc = "idle"
  /\ issued < MaxOps
  /\ worker' = [worker EXCEPT ![w] =
       [IdleWorker EXCEPT !.pc = IF op = "size" THEN "size" ELSE "acquire",
                          !.op = op,
                          !.key = IF op = "size" THEN 0 ELSE key,
                          !.value = IF op = "set" THEN value ELSE None]]
  /\ issued' = issued + 1
  /\ UNCHANGED <<lock, serial, capacity, lru, ttl, ttl_store, now, cache_type>>

\* `with self.lock:` at the start of get and set
Acquire(w) ==
  /\ worker[w].pc = "acquire"
  /\ CanAcquire(lock, w)
  /\ lock' = w
  /\ worker' = [worker EXCEPT ![w].pc =
       IF cache_type = "ttl" /\ worker[w].op = "set" THEN "assign" ELSE "find"]
  /\ UNCHANGED <<serial, issued, capacity, lru, ttl, ttl_store, now, cache_type>>

\* Cache.size: len(self.store), read without the lock
CacheSize(w) ==
  /\ worker[w].pc = "size"
  /\ worker' = [worker EXCEPT ![w] =
       [IdleWorker EXCEPT !.len = IF cache_type = "lru" THEN size(lru)
                                  ELSE Cardinality(DOMAIN ttl_store)]]
  /\ UNCHANGED <<lock, serial, issued, capacity, lru, ttl, ttl_store, now, cache_type>>

\* LRUCache.get line 173-176, LRUCache.set line 198-203: the key is looked
\* up; get returns on a miss; set writes the value of a node it finds or
\* makes a new node
LRUFind(w) ==
  LET h == worker[w] IN
  /\ cache_type = "lru"
  /\ h.pc = "find"
  /\ IF h.key \notin DOMAIN lru.store
       THEN IF h.op = "get"
              THEN Leave(w, h, <<None, FALSE>>) /\ lru' = lru
              ELSE LET node == NewCell(lru) IN
                   /\ lru' = [lru EXCEPT !.heap = DictSet(lru.heap, node, ListNode(h.key, h.value))]
                   /\ worker' = [worker EXCEPT ![w].pc = "add", ![w].node = node]
                   /\ UNCHANGED <<lock, serial>>
       ELSE LET node == lru.store[h.key] IN
            /\ lru' = IF h.op = "set" THEN [lru EXCEPT !.heap[node].value = h.value] ELSE lru
            /\ worker' = [worker EXCEPT ![w].pc = "delete", ![w].node = node]
            /\ UNCHANGED <<lock, serial>>
  /\ UNCHANGED <<issued, capacity, ttl, ttl_store, now, cache_type>>

\* LRUCache.get line 178, LRUCache.set line 201: self._delete(node); a node
\* that is not linked or not in the store raises
LRUDelete(w) ==
  LET h == worker[w] IN
  /\ cache_type = "lru"
  /\ h.pc = "delete"
  /\ IF \/ h.node \notin DOMAIN lru.heap
        \/ lru.heap[h.node].prev = NoNode
        \/ lru.heap[h.node].next = NoNode
        \/ h.key \notin DOMAIN lru.store
       THEN Raise(w) /\ lru' = lru
       ELSE /\ lru' = _delete(lru, h.node)
            /\ worker' = [worker EXCEPT ![w].pc = "add"]
            /\ UNCHANGED <<lock, serial>>
  /\ UNCHANGED <<issued, capacity, ttl, ttl_store, now, cache_type>>

\* LRUCache.get line 179, LRUCache.set line 205: self._add_to_end(node)
LRUAdd(w) ==
  LET h == worker[w] IN
  /\ cache_type = "lru"
  /\ h.pc = "add"
  /\ IF h.node \notin DOMAIN lru.heap \/ lru.heap[tail].prev = NoNode
       THEN Raise(w) /\ lru' = lru
       ELSE /\ lru' = _add_to_end(lru, h.node)
            /\ worker' = [worker EXCEPT ![w].pc = "store"]
            /\ UNCHANGED <<lock, serial>>
  /\ UNCHANGED <<issued, capacity, ttl, ttl_store, now, cache_type>>

\* LRUCache.get line 180-181, LRUCache.set line 206: self.store[key] = node;
\* get then returns the value of the node
LRUStore(w) ==
  LET h == worker[w]
      c == [lru EXCEPT !.store = DictSet(lru.store, h.key, h.node)]
  IN /\ cache_type = "lru"
     /\ h.pc = "store"
     /\ lru' = c
     /\ IF h.op = "get"
          THEN Leave(w, h, <<lru.heap[h.node].value, TRUE>>)
          ELSE /\ worker' = [worker EXCEPT ![w].pc = "evict"]
               /\ UNCHANGED <<lock, serial>>
     /\ UNCHANGED <<issued, capacity, ttl, ttl_store, now, cache_type>>

\* LRUCache.set line 208-210: the eviction, and the end of set
LRUEvict(w) ==
  LET h == worker[w] IN
  /\ cache_type = "lru"
  /\ h.pc = "evict"
  /\ IF size(lru) > capacity /\ lru.heap[head].next \in {tail, NoNode}
       THEN Raise(w) /\ lru' = lru
       ELSE /\ lru' = Reclaim(Evict(lru, capacity), w)
            /\ Leave(w, h, <<None, FALSE>>)
  /\ UNCHANGED <<issued, capacity, ttl, ttl_store, now, cache_type>>

\* TTLCache.get line 77-78: if key not in self.store: return (None, False)
TTLFind(w) ==
  LET h == worker[w] IN
  /\ cache_type = "ttl"
  /\ h.pc = "find"
  /\ IF h.key \notin DOMAIN ttl_store
       THEN Leave(w, h, <<None, FALSE>>)
       ELSE /\ worker' = [worker EXCEPT ![w].pc = "read"]
            /\ UNCHANGED <<lock, serial>>
  /\ UNCHANGED <<issued, capacity, lru, ttl, ttl_store, now, cache_type>>

\* TTLCache.get line 80: value, exp = self.store[key]
TTLRead(w) ==
  LET h == worker[w] IN
  /\ cache_type = "ttl"
  /\ h.pc = "read"
  /\ IF h.key \notin DOMAIN ttl_store
       THEN Raise(w)
       ELSE /\ worker' = [worker EXCEPT ![w].pc = "expire",
                                        ![w].value = ttl_store[h.key].value,
                                        ![w].exp = ttl_store[h.key].exp]
            /\ UNCHANGED <<lock, serial>>
  /\ UNCHANGED <<issued, capacity, lru, ttl, ttl_store, now, cache_type>>

\* TTLCache.get line 81-84: the clock is read and compared with exp
TTLExpire(w) ==
  LET h == [worker[w] EXCEPT !.t = now] IN
  /\ cache_type = "ttl"
  /\ h.pc = "expire"
  /\ IF Expired(now, h.exp)
       THEN /\ worker' = [worker EXCEPT ![w] = [h EXCEPT !.pc = "expired"]]
            /\ UNCHANGED <<lock, serial>>
       ELSE Leave(w, h, <<h.value, TRUE>>)
  /\ UNCHANGED <<issued, capacity, lru, ttl, ttl_store, now, cache_type>>

\* TTLCache.get line 82-83: self.delete(key), which takes the lock again,
\* and return (None, False)
TTLDelete(w) ==
  LET h == worker[w] IN
  /\ cache_type = "ttl"
  /\ h.pc = "expired"
  /\ CanAcquire(lock, w)
  /\ ttl_store' = TTLCache_delete(ttl_store, h.key)
  /\ Leave(w, h, <<None, FALSE>>)
  /\ UNCHANGED <<issued, capacity, lru, ttl, now, cache_type>>

\* TTLCache.set line 100: self.store[key] = (value, datetime.now() + ttl)
TTLAssign(w) ==
  LET h == [worker[w] EXCEPT !.t = now] IN
  /\ cache_type = "ttl"
  /\ h.pc = "assign"
  /\ ttl_store' = TTLCache_set(ttl_store, h.key, h.value, now, ttl)
  /\ Leave(w, h, <<None, FALSE>>)
  /\ UNCHANGED <<issued, capacity, lru, ttl, now, cache_type>>

\* datetime.now() advances while the threads run
LockedTick ==
  /\ cache_type = "ttl"
  /\ now < MaxProxyTime
  /\ now' = now + 1
  /\ UNCHANGED <<lk_vars, capacity, lru, ttl, ttl_store, cache_type>>

(***************************************************************************)
(***************************************************************************)
(* The load balancer, its proxy nodes (each with a TTL cache) and the      *)
(* origin, for clients that send the same GET one after the other: every   *)
(* request is picked, forwarded, handled by the proxy node and answered    *)
(* before the next one arrives.                                            *)
(***************************************************************************)
\* the key of the request, which the origin holds with this content
RequestKey == 1
origin_data == "v1"
\* origin_server.handle_connection for a GET of a key it holds
OriginReply == [io |-> "line", json |-> "object", status |-> "OK", data |-> origin_data]

\* ProxyNode.handle_connection (line 138-158) of the proxy node at address p
\* for a well-formed GET at time t, run without interference: the node
\* afterwards and the response
handle_connection(node, p, key, t, d) ==
  LET got == TTLCache_get(node.store, key, t)
      m1 == [node.metrics EXCEPT !["total_requests"] = @ + 1]
  IN IF got.ret[2]
       THEN [node |-> [store |-> got.store,
                       metrics |-> [m1 EXCEPT !["cache_hits"] = @ + 1]],
             res |-> [build_response("OK", got.ret[1], TRUE) EXCEPT !.node = p]]
       ELSE LET m2 == [m1 EXCEPT !["cache_misses"] = @ + 1, !["origin_fetches"] = @ + 1]
                f == fetch_from_origin(OriginReply)
                value == f.ret[1]
                status == f.ret[2]
            IN [node |-> [store |-> IF ShouldStore(status)
                                      THEN TTLCache_set(got.store, key, value, t, d)
                                      ELSE got.store,
                          metrics |-> m2],
                res |-> [build_response(status, value, FALSE) EXCEPT !.node = p]]

\* LoadBalancer.__init__ and ProxyNode.__init__ of every configured proxy
\* (main() starts the load balancer with at least one proxy)
SystemInit ==
  /\ ForwardInit
  /\ proxy_list # <<>>
  /\ fleet = [p \in Proxies |-> [store |-> EmptyDict, metrics |-> ProxyMetrics_init]]
  /\ served = <<>>

\* the load balancer with its proxy nodes not exercised
SystemIdle ==
  /\ fleet = <<>>
  /\ served = <<>>

\* handle_client: the next request arrives and a proxy is picked
SystemPick ==
  /\ Len(served) < MaxForwards
  /\ ClientPick
  /\ UNCHANGED <<fleet, served, ttl, now>>

\* handle_client line 155: the request is forwarded; the proxy node handles
\* it and its response line comes back
SystemForward ==
  LET p == client.proxy
      h == handle_connection(fleet[p], p, RequestKey, now, ttl)
  IN /\ client.pc = "forward"
     /\ ClientForward([io |-> "read", line |-> StatusLine(h.res.status)])
     /\ fleet' = [fleet EXCEPT ![p] = h.node]
     /\ served' = Append(served, [proxy |-> p, at |-> now, res |-> h.res])
     /\ UNCHANGED <<ttl, now>>

\* handle_client: the response is sent to the client
SystemSend ==
  /\ ClientSend
  /\ UNCHANGED <<fleet, served, ttl, now>>

\* datetime.now() of the proxy nodes advances
SystemTick ==
  /\ now < MaxTime
  /\ now' = now + 1
  /\ UNCHANGED <<lb_vars, fw_vars, fleet, served, ttl>>

(***************************************************************************)
(* The threads of the proxy node and of the load balancer as sequences of  *)
(* I/O steps and of calls that take a lock: the cache's RLock              *)
(* (cache_utils.py line 25) in get, set and delete, the registry's Lock    *)
(* (node_manager.py line 48) in mark_healthy, mark_unhealthy, is_healthy   *)
(* and get_healthy_nodes.  An I/O step waits for the peer; it may never    *)
(* happen.                                                                 *)
(***************************************************************************)
Threads == 1..NumThreads
Locks == {"cache", "registry"}

\* a step that waits for a peer and goes on at one of `next`
IO(next) == [kind |-> "io", lock |-> "none", method |-> "none", next |-> next]
\* a call of a method that runs `with self.lock`
Locked(l, method, next) == [kind |-> "call", lock |-> l, method |-> method, next |-> next]

\* ProxyNode.handle_connection with fetch_from_origin, LoadBalancer.handle_client
\* with pick_proxy and forward_request, and LoadBalancer.metrics_loop with
\* request_metrics: for each position what the thread does there and where it
\* goes on ("end": the thread returns or an exception ends it)
Program ==
  [handle_connection |->
     [recv |-> IO({"end", "reply", "cache_get"}),
      cache_get |-> Locked("cache", "get", {"reply", "origin_connect"}),
      origin_connect |-> IO({"reply", "origin_send"}),
      origin_send |-> IO({"origin_read", "end"}),
      origin_read |-> IO({"cache_set", "reply", "end"}),
      cache_set |-> Locked("cache", "set", {"reply"}),
      reply |-> IO({"end"})],
   handle_client |->
     [recv |-> IO({"end", "is_healthy", "get_healthy_nodes"}),
      is_healthy |-> Locked("registry", "is_healthy", {"is_healthy", "reply"}),
      get_healthy_nodes |-> Locked("registry", "get_healthy_nodes", {"connect", "reply", "end"}),
      connect |-> IO({"mark_unhealthy", "send"}),
      send |-> IO({"read", "end"}),
      read |-> IO({"mark_unhealthy", "mark_healthy", "end"}),
      mark_unhealthy |-> Locked("registry", "mark_unhealthy", {"reply"}),
      mark_healthy |-> Locked("registry", "mark_healthy", {"reply"}),
      reply |-> IO({"end"})],
   metrics_loop |->
     [sleep |-> IO({"connect"}),
      connect |-> IO({"mark_unhealthy", "send"}),
      send |-> IO({"read", "sleep"}),
      read |-> IO({"mark_unhealthy", "mark_healthy", "sleep"}),
      mark_unhealthy |-> Locked("registry", "mark_unhealthy", {"connect", "sleep"}),
      mark_healthy |-> Locked("registry", "mark_healthy", {"connect", "sleep"})]]

Roles == DOMAIN Program
\* the first statement of each function
Entry == [handle_connection |-> "recv", handle_client |-> "recv", metrics_loop |-> "sleep"]

\* a thread that the accept loop has not started
NoThread == [role |-> "none", pc |-> "accept", depth |-> 0]
\* the accept loop (proxy_node.py line 74, load_balancer.py line 92) waits
\* for a connection
Accepting == IO({"recv"})
\* what thread record h does at its position
Instr(h) == IF h.role = "none" THEN Accepting ELSE Program[h.role][h.pc]

\* TTLCache.get calls self.delete(key) inside its own `with self.lock`
\* (cache_utils.py line 82 and 114)
Reenters(i) == i.lock = "cache" /\ i.method = "get"

\* mutant: the lock is kept when the call returns
Released_never(depth) == FALSE

\* the end of a `with self.lock` block releases the lock when the thread has
\* left every block it entered
Released(depth) == depth = 0

ThreadsInit ==
  /\ thread = [t \in Threads |-> NoThread]
  /\ holder = [l \in Locks |-> NoOwner]

\* the threads not exercised
ThreadsIdle == ThreadsInit

\* a connection is accepted and a thread started for it, or the polling
\* thread is started
Start(t, role) ==
  /\ thread[t].role = "none"
  /\ role = "metrics_loop" => \A u \in Threads : thread[u].role # "metrics_loop"
  /\ thread' = [thread EXCEPT ![t] = [role |-> role, pc |-> Entry[role], depth |-> 0]]
  /\ UNCHANGED holder

\* an I/O step completes
IOStep(t, n) ==
  LET h == thread[t] IN
  /\ h.role # "none"
  /\ Instr(h).kind = "io"
  /\ n \in Instr(h).next
  /\ thread' = [thread EXCEPT ![t] = IF n = "end" THEN NoThread
                                     ELSE [h EXCEPT !.pc = n]]
  /\ UNCHANGED holder

\* `with self.lock:` at the start of a method, and in the delete that
\* TTLCache.get calls
Enter(t) ==
  LET h == thread[t]
      i == Instr(h)
  IN /\ i.kind = "call"
     /\ h.depth = 0 \/ (h.depth = 1 /\ Reenters(i))
     /\ CanAcquire(holder[i.lock], t)
     /\ holder' = [holder EXCEPT ![i.lock] = t]
     /\ thread' = [thread EXCEPT ![t].depth = h.depth + 1]

\* the end of a `with self.lock:` block; the outermost one ends the call
Exit(t, n) ==
  LET h == thread[t]
      i == Instr(h)
  IN /\ i.kind = "call"
     /\ h.depth > 0
     /\ n \in i.next
     /\ holder' = [holder EXCEPT ![i.lock] = IF Released(h.depth - 1) THEN NoOwner ELSE @]
     /\ thread' = [thread EXCEPT ![t] =
          IF h.depth > 1 THEN [h EXCEPT !.depth = h.depth - 1]
          ELSE IF n = "end" THEN NoThread
          ELSE [h EXCEPT !.pc = n, !.depth = 0]]

LRUIdle ==
  /\ capacity = 1
  /\ lru = LRUCache_init
  /\ lru_call = NoCall
  /\ lru_recency = <<>>

TTLIdle ==
  /\ ttl = 1
  /\ ttl_store = EmptyDict
  /\ now = 0
  /\ ttl_call = NoTTLCall
  /\ ttl_last_set = EmptyDict

InitLRU == LRUInit /\ TTLIdle /\ LBIdle /\ ClientIdle /\ ProxyIdle /\ LockedInit /\ SystemIdle /\ ThreadsIdle

NextLRU ==
  \/ \E k \in Keys : LRUGet(k) /\ UNCHANGED <<ttl_vars, lb_vars, fw_vars, px_vars, lk_vars, sys_vars, io_vars>>
  \/ \E k \in Keys, v \in Values : LRUSet(k, v) /\ UNCHANGED <<ttl_vars, lb_vars, fw_vars, px_vars, lk_vars, sys_vars, io_vars>>

SpecLRU == InitLRU /\ [][NextLRU]_vars

InitTTL == TTLInit /\ LRUIdle /\ LBIdle /\ ClientIdle /\ ProxyIdle /\ LockedInit /\ SystemIdle /\ ThreadsIdle

NextTTL ==
  \/ Tick /\ UNCHANGED <<lru_vars, lb_vars, fw_vars, px_vars, lk_vars, sys_vars, io_vars>>
  \/ \E k \in TTLKeys : TTLGet(k) /\ UNCHANGED <<lru_vars, lb_vars, fw_vars, px_vars, lk_vars, sys_vars, io_vars>>
  \/ \E k \in TTLKeys, v \in Values : TTLSet(k, v) /\ UNCHANGED <<lru_vars, lb_vars, fw_vars, px_vars, lk_vars, sys_vars, io_vars>>

SpecTTL == InitTTL /\ [][NextTTL]_vars

InitRegistry == LBIdle /\ LRUIdle /\ TTLIdle /\ ClientIdle /\ ProxyIdle /\ LockedInit /\ SystemIdle /\ ThreadsIdle

\* the registry alone: its methods, called in any order by any thread (each
\* runs under NodeManager.lock)
NextRegistry ==
  \/ \E p \in Proxies : MarkHealthy(p)
        /\ UNCHANGED <<lru_vars, ttl_vars, fw_vars, px_vars, proxy_list, strategy, proxy_stats, current_index, handler, poller, lk_vars, sys_vars, io_vars>>
  \/ \E p \in Proxies : MarkUnhealthy(p)
        /\ UNCHANGED <<lru_vars, ttl_vars, fw_vars, px_vars, proxy_list, strategy, proxy_stats, current_index, handler, poller, lk_vars, sys_vars, io_vars>>
  \/ GetHealthyNodes
        /\ UNCHANGED <<lru_vars, ttl_vars, fw_vars, px_vars, proxy_list, strategy, proxy_stats, current_index, handler, poller, lk_vars, sys_vars, io_vars>>
  \/ \E p \in Proxies : IsHealthy(p)
        /\ UNCHANGED <<lru_vars, ttl_vars, fw_vars, px_vars, proxy_list, strategy, proxy_stats, current_index, handler, poller, lk_vars, sys_vars, io_vars>>

SpecRegistry == InitRegistry /\ [][NextRegistry]_vars

Init == LBInit /\ LRUIdle /\ TTLIdle /\ ClientIdle /\ ProxyIdle /\ LockedInit /\ SystemIdle /\ ThreadsIdle

Next ==
  \/ \E t \in Handlers : PickHealthy(t) /\ UNCHANGED <<lru_vars, ttl_vars, fw_vars, px_vars, lk_vars, sys_vars, io_vars>>
  \/ \E t \in Handlers : RRIndex(t) /\ UNCHANGED <<lru_vars, ttl_vars, fw_vars, px_vars, lk_vars, sys_vars, io_vars>>
  \/ \E t \in Handlers : RRLoad(t) /\ UNCHANGED <<lru_vars, ttl_vars, fw_vars, px_vars, lk_vars, sys_vars, io_vars>>
  \/ \E t \in Handlers : RRStore(t) /\ UNCHANGED <<lru_vars, ttl_vars, fw_vars, px_vars, lk_vars, sys_vars, io_vars>>
  \/ \E t \in Handlers : LLTest(t) /\ UNCHANGED <<lru_vars, ttl_vars, fw_vars, px_vars, lk_vars, sys_vars, io_vars>>
  \/ \E t \in Handlers : LLRead(t) /\ UNCHANGED <<lru_vars, ttl_vars, fw_vars, px_vars, lk_vars, sys_vars, io_vars>>
  \/ \E t \in Handlers : HandlerDied(t) /\ UNCHANGED <<lru_vars, ttl_vars, fw_vars, px_vars, lk_vars, sys_vars, io_vars>>
  \/ \E t \in Handlers, ok \in BOOLEAN : Forward(t, ok) /\ UNCHANGED <<lru_vars, ttl_vars, fw_vars, px_vars, lk_vars, sys_vars, io_vars>>
  \/ \E b \in PollBehaviours : PollStore(b) /\ UNCHANGED <<lru_vars, ttl_vars, fw_vars, px_vars, lk_vars, sys_vars, io_vars>>
  \/ \E b \in PollBehaviours : PollRaise(b) /\ UNCHANGED <<lru_vars, ttl_vars, fw_vars, px_vars, lk_vars, sys_vars, io_vars>>
  \/ PollContinue /\ UNCHANGED <<lru_vars, ttl_vars, fw_vars, px_vars, lk_vars, sys_vars, io_vars>>
  \/ PollMark /\ UNCHANGED <<lru_vars, ttl_vars, fw_vars, px_vars, lk_vars, sys_vars, io_vars>>

Spec == Init /\ [][Next]_vars

\* a proxy node is constructed with one of the two engines
InitProxy ==
  /\ ProxyInit
  /\ \/ cache_type = "lru" /\ LRUInit /\ TTLIdle
     \/ cache_type = "ttl" /\ TTLInit /\ LRUIdle
  /\ LBIdle
  /\ ClientIdle
  /\ LockedInit
  /\ SystemIdle /\ ThreadsIdle

\* the call histories of the caches (lru_call, lru_recency, ttl_call,
\* ttl_last_set) are not kept for the calls the proxy node makes
NextProxy ==
  \/ \E c \in Conns, req \in Requests : Receive(c, req)
        /\ UNCHANGED <<lb_vars, fw_vars, lru_call, lru_recency, ttl_call, ttl_last_set, lk_vars, sys_vars, io_vars>>
  \/ \E c \in Conns : RecordLoad(c)
        /\ UNCHANGED <<lb_vars, fw_vars, lru_call, lru_recency, ttl_call, ttl_last_set, lk_vars, sys_vars, io_vars>>
  \/ \E c \in Conns : RecordStore(c)
        /\ UNCHANGED <<lb_vars, fw_vars, lru_call, lru_recency, ttl_call, ttl_last_set, lk_vars, sys_vars, io_vars>>
  \/ \E c \in Conns : Lookup(c)
        /\ UNCHANGED <<lb_vars, fw_vars, lru_call, lru_recency, ttl_call, ttl_last_set, lk_vars, sys_vars, io_vars>>
  \/ \E c \in Conns, b \in OriginBehaviours : Fetch(c, b)
        /\ UNCHANGED <<lb_vars, fw_vars, lru_call, lru_recency, ttl_call, ttl_last_set, lk_vars, sys_vars, io_vars>>
  \/ \E c \in Conns : CacheSet(c)
        /\ UNCHANGED <<lb_vars, fw_vars, lru_call, lru_recency, ttl_call, ttl_last_set, lk_vars, sys_vars, io_vars>>
  \/ \E c \in Conns : Respond(c)
        /\ UNCHANGED <<lb_vars, fw_vars, lru_call, lru_recency, ttl_call, ttl_last_set, lk_vars, sys_vars, io_vars>>
  \/ \E c \in Conns : ConnDied(c)
        /\ UNCHANGED <<lb_vars, fw_vars, lru_call, lru_recency, ttl_call, ttl_last_set, lk_vars, sys_vars, io_vars>>
  \/ ProxyTick
        /\ UNCHANGED <<lb_vars, fw_vars, lru_call, lru_recency, ttl_call, ttl_last_set, lk_vars, sys_vars, io_vars>>

SpecProxy == InitProxy /\ [][NextProxy]_vars

InitForward == ForwardInit /\ LRUIdle /\ TTLIdle /\ ProxyIdle /\ LockedInit /\ SystemIdle /\ ThreadsIdle

NextForward ==
  \/ ClientPick /\ UNCHANGED <<lru_vars, ttl_vars, px_vars, lk_vars, sys_vars, io_vars>>
  \/ \E b \in ProxyBehaviours : ClientForward(b) /\ UNCHANGED <<lru_vars, ttl_vars, px_vars, lk_vars, sys_vars, io_vars>>
  \/ ClientSend /\ UNCHANGED <<lru_vars, ttl_vars, px_vars, lk_vars, sys_vars, io_vars>>
  \/ ClientDied /\ UNCHANGED <<lru_vars, ttl_vars, px_vars, lk_vars, sys_vars, io_vars>>

SpecForward == InitForward /\ [][NextForward]_vars

InitMetrics == LRUIdle /\ TTLIdle /\ LBIdle /\ ClientIdle /\ ProxyIdle /\ LockedInit /\ SystemIdle /\ ThreadsIdle

\* ProxyMetrics alone: its record_* methods, called by concurrent threads
NextMetrics ==
  \/ \E c \in Conns, m \in RecordPcs : MetricsCall(c, m)
        /\ UNCHANGED <<lb_vars, fw_vars, lru_call, lru_recency, ttl_call, ttl_last_set, lk_vars, sys_vars, io_vars>>
  \/ \E c \in Conns : RecordLoad(c)
        /\ UNCHANGED <<lb_vars, fw_vars, lru_call, lru_recency, ttl_call, ttl_last_set, lk_vars, sys_vars, io_vars>>
  \/ \E c \in Conns : RecordStore(c)
        /\ UNCHANGED <<lb_vars, fw_vars, lru_call, lru_recency, ttl_call, ttl_last_set, lk_vars, sys_vars, io_vars>>

SpecMetrics == InitMetrics /\ [][NextMetrics]_vars

\* what the threads and their locks leave alone
ThreadsFrame == <<lru_vars, ttl_vars, lb_vars, fw_vars, px_vars, lk_vars, sys_vars>>

InitThreads ==
  /\ ThreadsInit /\ LRUIdle /\ TTLIdle /\ LBIdle /\ ClientIdle /\ ProxyIdle /\ LockedInit
  /\ SystemIdle

NextThreads ==
  \/ \E t \in Threads, role \in Roles : Start(t, role) /\ UNCHANGED ThreadsFrame
  \/ \E t \in Threads, n \in {"end"} \cup UNION {DOMAIN Program[r] : r \in Roles} :
       IOStep(t, n) /\ UNCHANGED ThreadsFrame
  \/ \E t \in Threads : Enter(t) /\ UNCHANGED ThreadsFrame
  \/ \E t \in Threads, n \in {"end"} \cup UNION {DOMAIN Program[r] : r \in Roles} :
       Exit(t, n) /\ UNCHANGED ThreadsFrame

SpecThreads == InitThreads /\ [][NextThreads]_vars

\* what the polling thread leaves alone
PollerFrame == <<lru_vars, ttl_vars, fw_vars, px_vars, lk_vars, sys_vars, io_vars>>

\* metrics_loop alone: no client request is forwarded.  The thread is a
\* daemon thread in a `while True` loop (load_balancer.py line 67-68 and 294):
\* it keeps taking steps, whatever the proxies answer
NextPoller ==
  \/ \E b \in PollBehaviours : PollStore(b) /\ UNCHANGED PollerFrame
  \/ \E b \in PollBehaviours : PollRaise(b) /\ UNCHANGED PollerFrame
  \/ PollContinue /\ UNCHANGED PollerFrame
  \/ PollMark /\ UNCHANGED PollerFrame

SpecPoller == Init /\ [][NextPoller]_vars /\ WF_vars(NextPoller)

(***************************************************************************)
(* Properties of the LRU cache (SpecLRU).                                  *)
\* what the requests through the load balancer leave alone
SystemFrame ==
  <<lru_vars, px_vars, lk_vars, io_vars, ttl_store, ttl_call, ttl_last_set>>

InitSystem == SystemInit /\ LRUIdle /\ TTLInit /\ ProxyIdle /\ LockedInit /\ ThreadsIdle

NextSystem ==
  \/ SystemPick /\ UNCHANGED SystemFrame
  \/ SystemForward /\ UNCHANGED SystemFrame
  \/ SystemSend /\ UNCHANGED SystemFrame
  \/ SystemTick /\ UNCHANGED SystemFrame

SpecSystem == InitSystem /\ [][NextSystem]_vars

\* what the threads of one engine leave alone
LockedFrame ==
  <<lb_vars, fw_vars, sys_vars, io_vars, lru_call, lru_recency, ttl_call, ttl_last_set, proxy_metrics,
    conn, accepted>>

\* one engine, TTL or LRU, and the threads that call it
InitLocked ==
  /\ ProxyInit
  /\ \/ cache_type = "lru" /\ LRUInit /\ TTLIdle
     \/ cache_type = "ttl" /\ TTLInit /\ LRUIdle
  /\ LBIdle
  /\ ClientIdle
  /\ LockedInit
  /\ SystemIdle /\ ThreadsIdle

NextLocked ==
  \/ \E w \in Workers, op \in {"get", "set", "size"}, k \in WorkerKeys, v \in Values :
       CacheCall(w, op, k, v) /\ UNCHANGED LockedFrame
  \/ \E w \in Workers : Acquire(w) /\ UNCHANGED LockedFrame
  \/ \E w \in Workers : CacheSize(w) /\ UNCHANGED LockedFrame
  \/ \E w \in Workers : LRUFind(w) /\ UNCHANGED LockedFrame
  \/ \E w \in Workers : LRUDelete(w) /\ UNCHANGED LockedFrame
  \/ \E w \in Workers : LRUAdd(w) /\ UNCHANGED LockedFrame
  \/ \E w \in Workers : LRUStore(w) /\ UNCHANGED LockedFrame
  \/ \E w \in Workers : LRUEvict(w) /\ UNCHANGED LockedFrame
  \/ \E w \in Workers : TTLFind(w) /\ UNCHANGED LockedFrame
  \/ \E w \in Workers : TTLRead(w) /\ UNCHANGED LockedFrame
  \/ \E w \in Workers : TTLExpire(w) /\ UNCHANGED LockedFrame
  \/ \E w \in Workers : TTLDelete(w) /\ UNCHANGED LockedFrame
  \/ \E w \in Workers : TTLAssign(w) /\ UNCHANGED LockedFrame
  \/ LockedTick /\ UNCHANGED LockedFrame

SpecLocked == InitLocked /\ [][NextLocked]_vars

(***************************************************************************)
\* the keys a cache holds, and the value it holds for one of them
Present(c) == DOMAIN c.store
ValueOf(c, k) == c.heap[c.store[k]].value

\* the keys of the linked nodes from node n to the tail sentinel
RECURSIVE KeysFrom(_, _)
KeysFrom(c, n) ==
  IF n = tail \/ n = NoNode THEN <<>> ELSE <<c.heap[n].key>> \o KeysFrom(c, c.heap[n].next)
\* the recency order the list holds, least recently used first
Order(c) == KeysFrom(c, c.heap[head].next)
\* the most recently used entry: the node before the tail sentinel
MostRecent(c) == c.heap[c.heap[tail].prev].key
\* by the history of calls: among the keys in ks, the one whose latest
\* successful get or set is the oldest
OldestUsed(ks) == SelectSeq(lru_recency, LAMBDA x : x \in ks)[1]

\* C1: for an LRUCache of capacity c >= 1, size() <= c holds whenever a get
\* or a set has returned, after any sequence of calls.
C1_SizeWithinCapacity == size(lru) <= capacity

\* C1 witness: a set of a new key into a full cache has returned, and the
\* cache is still exactly full.
C1_Witness ==
  /\ lru_call.op = "set"
  /\ lru_call.key \notin lru_call.before
  /\ Cardinality(lru_call.before) = capacity
  /\ size(lru) = capacity

\* C2: a set of an absent key into a cache that holds exactly `capacity` keys
\* removes exactly one key, the least recently used one; every other key
\* keeps its value and the new key is present with the value set.
C2_EvictsLeastRecentlyUsed ==
  [][(/\ lru_call'.op = "set"
      /\ size(lru) = capacity
      /\ lru_call'.key \notin Present(lru))
     => LET victim == OldestUsed(Present(lru)) IN
        /\ victim \in Present(lru)
        /\ Present(lru') = (Present(lru) \ {victim}) \cup {lru_call'.key}
        /\ \A j \in Present(lru) \ {victim} : ValueOf(lru', j) = ValueOf(lru, j)
        /\ ValueOf(lru', lru_call'.key) = lru_call'.value]_vars

\* C2 witness: a set of an absent key into a full cache of capacity 2 has
\* returned; the two keys before it had been used in the order opposite to
\* their insertion, and the cache holds the new key.
C2_Witness ==
  /\ capacity = 2
  /\ lru_call.op = "set"
  /\ lru_call.key \notin lru_call.before
  /\ Cardinality(lru_call.before) = capacity
  /\ Len(lru_recency) = 3
  /\ lru_recency[1] > lru_recency[2]
  /\ lru_recency[1] \notin Present(lru)
  /\ lru_call.key \in Present(lru)

\* C3: a get that finds k, and every set of k, make k the most recently used
\* entry (the list then holds the present keys in the order of their latest
\* use); a set of a present key replaces its value and neither changes the
\* keys held nor any other value; a get(k) right after set(k, v) returns v.
C3_Recency ==
  [][/\ (lru_call'.op = "get" /\ lru_call'.ret[2]) => MostRecent(lru') = lru_call'.key
     /\ lru_call'.op = "set" => MostRecent(lru') = lru_call'.key
     /\ lru_call'.op \in {"get", "set"} =>
          Order(lru') = SelectSeq(lru_recency', LAMBDA x : x \in Present(lru'))
     /\ (lru_call'.op = "set" /\ lru_call'.key \in Present(lru)) =>
          /\ Present(lru') = Present(lru)
          /\ size(lru') = size(lru)
          /\ ValueOf(lru', lru_call'.key) = lru_call'.value
          /\ \A j \in Present(lru) \ {lru_call'.key} : ValueOf(lru', j) = ValueOf(lru, j)
     /\ (lru_call.op = "set" /\ lru_call'.op = "get" /\ lru_call'.key = lru_call.key) =>
          lru_call'.ret = <<lru_call.value, TRUE>>]_vars

\* C3 witness: in a full cache of capacity 2, get(1) has found key 1 with the
\* value v2 and key 1 is now the most recently used of the two keys held.
C3_Witness ==
  /\ capacity = 2
  /\ size(lru) = 2
  /\ lru_call.op = "get"
  /\ lru_call.key = 1
  /\ lru_call.ret = <<"v2", TRUE>>
  /\ lru_recency = <<2, 1>>
  /\ Order(lru) = <<2, 1>>

(***************************************************************************)
(* Properties of the TTL cache (SpecTTL).                                  *)
(***************************************************************************)
\* C4: with ttl T, a get(k) no later than T after the latest set(k, v)
\* returns (v, True); a get(k) more than T after the latest set(k) returns
\* (None, False) and leaves k out of the store, so size() does not count it.
C4_TTLExpiry ==
  [][(ttl_call'.op = "get" /\ ttl_call'.key \in DOMAIN ttl_last_set)
     => LET k == ttl_call'.key
            s == ttl_last_set[k]
        IN /\ now - s.at <= ttl => ttl_call'.ret = <<s.value, TRUE>>
           /\ now - s.at > ttl =>
                /\ ttl_call'.ret = <<None, FALSE>>
                /\ k \notin DOMAIN ttl_store'
                /\ Cardinality(DOMAIN ttl_store') = Cardinality((DOMAIN ttl_store) \ {k})]_vars

\* C4 witness: a get of a key that was set more than ttl ago has returned
\* (None, False) and the key, the only one ever set, is gone: size() = 0.
C4_Witness ==
  /\ ttl_call.op = "get"
  /\ ttl_call.key \in DOMAIN ttl_last_set
  /\ now - ttl_last_set[ttl_call.key].at > ttl
  /\ ttl_call.ret = <<None, FALSE>>
  /\ Cardinality(DOMAIN ttl_last_set) = 1
  /\ Cardinality(DOMAIN ttl_store) = 0

(***************************************************************************)
(* Properties of the node-health registry (SpecRegistry).                  *)
(***************************************************************************)
\* the proxies marked healthy
HealthySet == {p \in Proxies : nodes[p].healthy}

\* C5: counted from construction or from the latest mark_healthy, the first
\* and the second mark_unhealthy of a node leave it healthy and the third
\* makes it unhealthy; a mark_healthy at any point sets healthy to true and
\* failures to 0; a call changes no other node.  The calls come in any order.
C5_ThreeStrikes ==
  [][\A p \in Proxies :
       /\ (reg_call'.op = "mark_unhealthy" /\ reg_call'.proxy = p) =>
            /\ streak'[p] \in {1, 2} => nodes'[p].healthy
            /\ streak'[p] >= 3 => ~nodes'[p].healthy
       /\ (reg_call'.op = "mark_healthy" /\ reg_call'.proxy = p) =>
            /\ nodes'[p] = [healthy |-> TRUE, failures |-> 0]
            /\ streak'[p] = 0
       /\ reg_call'.proxy # p => nodes'[p] = nodes[p]]_vars

\* C5 witness: a node has just become unhealthy by its third mark_unhealthy in
\* a row while the other node, marked twice, is still healthy.
C5_Witness ==
  /\ reg_call.op = "mark_unhealthy"
  /\ streak[reg_call.proxy] = 3
  /\ ~nodes[reg_call.proxy].healthy
  /\ \E q \in Proxies : streak[q] = 2 /\ nodes[q].healthy

\* C6: in every state of the registry and for every node, failures >= 0 and
\* the node is unhealthy exactly when failures >= 3.
C6_HealthyIffBelowThreshold ==
  \A p \in Proxies :
    /\ nodes[p].failures >= 0
    /\ nodes[p].healthy <=> nodes[p].failures < 3

\* C6 witness: a node with more than three failures is unhealthy while another,
\* marked healthy again after failures, is healthy with no failure.
C6_Witness ==
  /\ \E p \in Proxies : nodes[p].failures > 3 /\ ~nodes[p].healthy
  /\ reg_call.op = "mark_healthy"
  /\ nodes[reg_call.proxy] = [healthy |-> TRUE, failures |-> 0]

\* C7: get_healthy_nodes() returns the proxies marked healthy, each once and in
\* configured order; when none is marked healthy it returns the full
\* configured list; the result is never empty.
C7_HealthyNodesFailOpen ==
  reg_call.op = "get_healthy_nodes" =>
    LET r == reg_call.ret IN
    /\ HealthySet # {} =>
         /\ {r[i] : i \in 1..Len(r)} = HealthySet
         /\ \A i, j \in 1..Len(r) : i < j => Position(r[i]) < Position(r[j])
    /\ HealthySet = {} => r = proxy_list
    /\ Len(r) > 0

\* C7 witness: get_healthy_nodes() has returned the full list while every
\* proxy is marked unhealthy.
C7_Witness ==
  /\ reg_call.op = "get_healthy_nodes"
  /\ HealthySet = {}
  /\ reg_call.ret = proxy_list

(***************************************************************************)
(* Properties of proxy selection (Spec): handler threads run pick_proxy    *)
(* while other handler threads and the polling thread run.                 *)
(***************************************************************************)
\* handler thread t returns from pick_proxy in this step
Returns(t) == handler[t].pc \notin {"idle", "picked", "raised"} /\ handler'[t].pc = "picked"
\* handler thread t leaves pick_proxy by an exception in this step
Raises(t) == handler[t].pc \notin {"idle", "picked", "raised"} /\ handler'[t].pc = "raised"

\* C8: pick_proxy always returns a configured proxy; when some proxy was
\* marked healthy as the registry was read it returns one of those, and it
\* returns an unhealthy one only when every proxy was unhealthy.
C8_PickReturnsCandidate ==
  [][\A t \in Handlers :
       /\ ~Raises(t)
       /\ Returns(t) =>
            /\ handler'[t].proxy \in Proxies
            /\ handler[t].seen # {} => handler'[t].proxy \in handler[t].seen
            /\ handler'[t].proxy \notin handler[t].seen => handler[t].seen = {}]_vars

\* C9: under round robin a call that read cursor value k returns
\* candidates[k mod len(candidates)] and leaves the cursor at k + 1; the
\* cursor never decreases.
C9_RoundRobinCursor ==
  [][/\ \A t \in Handlers :
          (strategy = "round_robin" /\ Returns(t)) =>
            /\ handler'[t].proxy =
                 handler[t].healthy_proxies[(handler[t].k % Len(handler[t].healthy_proxies)) + 1]
            /\ current_index' = handler[t].k + 1
     /\ current_index' >= current_index]_vars

\* C10: under least_loaded pick_proxy returns the candidate with the smallest
\* total_requests in its last-known snapshot (a missing snapshot counts as
\* 0), the earliest in the configured list among equals: the proxy returned
\* is that candidate for the metrics map as it stood at some moment of the
\* call.
C10_LeastLoadedChoice ==
  [][\A t \in Handlers :
       (strategy = "least_loaded" /\ Returns(t)) =>
         handler'[t].proxy \in handler[t].views]_vars

(***************************************************************************)
(* Properties of the proxy node (SpecProxy) and of its counters            *)
(* (SpecMetrics).                                                          *)
(***************************************************************************)
\* thread c ends the handling of its request in this step: the response is
\* sent, or an exception has closed the connection
Finishes(c) == conn[c].pc \in {"respond", "raised"} /\ conn'[c].pc = "idle"
\* thread c sends its response in this step
Answers(c) == conn[c].pc = "respond" /\ conn'[c].pc = "idle"
\* what cache.get(k) would find in the cache (l, st) at time t
PeekIn(l, st, t, k) ==
  IF cache_type = "lru"
    THEN (IF k \in DOMAIN l.store THEN <<ValueOf(l, k), TRUE>> ELSE <<None, FALSE>>)
    ELSE (IF k \in DOMAIN st /\ ~Expired(t, st[k].exp)
            THEN <<st[k].value, TRUE>> ELSE <<None, FALSE>>)
Rejections == {"WRONG_METHOD", "BAD_REQUEST", "METRICS"}

\* C11: every well-formed GET a proxy handles makes total_requests grow by
\* exactly 1 and exactly one of cache_hits and cache_misses grow by exactly 1
\* (cache_hits when the lookup found the key, cache_misses otherwise), and
\* total_requests is incremented before the cache lookup.
C11_RequestCounted ==
  [][\A c \in Conns :
       (Finishes(c) /\ conn[c].kind = "GET") =>
         LET h == conn[c] IN
         /\ Len(h.calls) >= 3
         /\ h.calls[1] = "record_request"
         /\ h.calls[2] = "get"
         /\ h.delta["total_requests"] = 1
         /\ IF h.found
              THEN h.delta["cache_hits"] = 1 /\ h.delta["cache_misses"] = 0
              ELSE h.delta["cache_hits"] = 0 /\ h.delta["cache_misses"] = 1]_vars

\* C12: every miss on a well-formed GET makes origin_fetches grow by exactly
\* 1, whatever the origin does; a hit leaves origin_fetches alone and does
\* not contact the origin.
C12_MissCountsOriginFetch ==
  [][\A c \in Conns :
       (Finishes(c) /\ conn[c].kind = "GET") =>
         LET h == conn[c]
             fetches == Cardinality({i \in 1..Len(h.calls) : h.calls[i] = "fetch"})
         IN IF h.found
              THEN h.delta["origin_fetches"] = 0 /\ fetches = 0
              ELSE h.delta["origin_fetches"] = 1 /\ fetches = 1]_vars

\* C13: no increment is lost: when all the well-formed GET requests received
\* so far have been handled, total_requests is their number, cache_hits +
\* cache_misses is their number, and origin_fetches = cache_misses.
C13_NoLostIncrement ==
  (\A c \in Conns : conn[c].pc = "idle") =>
    /\ proxy_metrics["total_requests"] = accepted
    /\ proxy_metrics["cache_hits"] + proxy_metrics["cache_misses"] = accepted
    /\ proxy_metrics["origin_fetches"] = proxy_metrics["cache_misses"]

\* C14: no step makes a counter smaller than it was.
C14_CountersNeverDecrease ==
  [][\A k \in Counters : proxy_metrics'[k] >= proxy_metrics[k]]_vars

\* C15: a request that is answered WRONG_METHOD or BAD_REQUEST, and a METRICS
\* request, change no counter and leave the cache as it is: no step of the
\* thread that handles it does, from the reading of the request to the
\* response.
C15_RejectedChangesNothing ==
  [][\A c \in Conns :
       (conn'[c] # conn[c] /\ (conn[c].kind \in Rejections \/ conn'[c].kind \in Rejections)) =>
         /\ proxy_metrics' = proxy_metrics
         /\ lru' = lru
         /\ ttl_store' = ttl_store
         /\ Answers(c) => /\ conn[c].calls = <<>>
                          /\ Response(conn[c]).cache_hit = FALSE]_vars

\* a rejected request is about to be answered while the counters and the
\* cache hold what an earlier GET left there
C15_Witness ==
  \E c \in Conns :
    /\ conn[c].pc = "respond"
    /\ conn[c].kind = "BAD_REQUEST"
    /\ proxy_metrics["total_requests"] = 1
    /\ proxy_metrics["cache_misses"] = 1
    /\ PeekIn(lru, ttl_store, now, 1)[2]

\* C16: on a miss whose fetch returns OK the value is in the cache under the
\* key before the response is sent, so that a get of the key finds that
\* value, and goes on finding it until another set or the passage of time
\* removes or replaces it; a hit returns the value the cache holds.  On a
\* miss whose fetch returns NOT_FOUND or ORIGIN_FAILURE the thread leaves the
\* cache as it is and the response carries that status, data null and
\* cache_hit false.
C16_MissPath ==
  [][/\ \A c \in Conns :
          LET h == conn[c] IN
          /\ (h.pc = "set" /\ conn'[c].pc # "set") =>
               PeekIn(lru', ttl_store', now', h.key) = <<h.value, TRUE>>
          /\ (h.pc = "fetch" /\ conn'[c] # h) => lru' = lru /\ ttl_store' = ttl_store
          /\ (h.pc = "get" /\ conn'[c].pc = "record_hit") =>
               <<conn'[c].value, TRUE>> = PeekIn(lru, ttl_store, now, h.key)
          /\ (Answers(c) /\ h.kind = "GET" /\ ~h.found) =>
               IF h.status = "OK"
                 THEN /\ h.calls[Len(h.calls)] = "set"
                      /\ Response(h) = [status |-> "OK", data |-> h.value,
                                        cache_hit |-> FALSE, node |-> port]
                 ELSE /\ h.status \in {"NOT_FOUND", "ORIGIN_FAILURE"}
                      /\ \A i \in 1..Len(h.calls) : h.calls[i] # "set"
                      /\ Response(h) = [status |-> h.status, data |-> None,
                                        cache_hit |-> FALSE, node |-> port]
     /\ \A k \in CacheKeys :
          (PeekIn(lru, ttl_store, now, k)[2]
             /\ PeekIn(lru', ttl_store', now', k) # PeekIn(lru, ttl_store, now, k)) =>
            \/ now' > now
            \/ \E d \in Conns : conn[d].pc = "set" /\ conn'[d].pc # "set"]_vars

\* the second request for a key is a hit that returns the value the first
\* request, a miss, fetched and stored
C16_Witness ==
  \E c \in Conns :
    /\ conn[c].pc = "respond"
    /\ conn[c].found
    /\ conn[c].value \in Values
    /\ accepted = 2
    /\ proxy_metrics["origin_fetches"] = 1

\* the outcome the mapping gives for a behaviour of the origin
ClaimedOutcome(b) ==
  IF b.io = "line" /\ b.json = "object" /\ b.status = "OK"
    THEN <<IF b.data = Absent THEN None ELSE b.data, "OK">>
  ELSE IF b.io = "line" /\ b.json = "object" /\ b.status = "NOT_FOUND"
    THEN <<None, "NOT_FOUND">>
  ELSE <<None, "ORIGIN_FAILURE">>

\* C17: whatever the origin does, fetch_from_origin returns: (data, OK) for a
\* JSON reply with status OK, (None, NOT_FOUND) for status NOT_FOUND, and
\* (None, ORIGIN_FAILURE) for a refused connection, a failure while sending
\* or reading, an empty reply, a reply that is not JSON, and a JSON reply
\* with another status or none; the connection is closed before.
C17_FetchOutcome ==
  [][\A c \in Conns :
       (conn[c].pc = "fetch" /\ conn'[c].pc # "fetch") =>
         /\ conn'[c].pc # "raised"
         /\ <<conn'[c].value, conn'[c].status>> = ClaimedOutcome(conn'[c].origin)
         /\ fetch_from_origin(conn'[c].origin).closed]_vars

(***************************************************************************)
(* Properties of the load balancer's handling of a client (SpecForward).   *)
(***************************************************************************)
\* forward_request has run in this step
Forwarded == client.pc = "forward" /\ client'.pc # "forward"
\* the forward failed: the connection was refused or broke, or what was read
\* is empty or is not JSON
FailedForward(b) == b.io # "read" \/ b.line.body.kind \in {"empty", "garbage"}

\* C18: whenever forwarding to the selected proxy fails (connection refused,
\* connection broken while sending or reading, empty reply, reply that is
\* not JSON), the proxy's failure count grows by one and the client is
\* answered with status PROXY_UNREACHABLE.
C18_ForwardFailure ==
  [][(Forwarded /\ FailedForward(client'.reply)) =>
       /\ nodes'[client.proxy].failures = nodes[client.proxy].failures + 1
       /\ client'.pc = "send"
       /\ client'.res.body = [kind |-> "object", status |-> "PROXY_UNREACHABLE"]
       /\ client'.res.newline]_vars

C20_EmptyListProxyError ==
  [][(client.pc = "idle" /\ client'.pc # "idle" /\ proxy_list = <<>>) =>
       /\ client'.pc = "send"
       /\ client'.res.body = [kind |-> "object", status |-> "PROXY_ERROR"]]_vars

\* C21: every poll of a proxy has one of two outcomes.  A successful poll
\* stores the snapshot it returned for that proxy and marks the proxy
\* healthy; a failed poll of any kind (connection error, no reply, a reply
\* that is not JSON, another status than OK, no data field) stores None for
\* that proxy and marks it unhealthy, which adds one failure.
C21_PollOutcome ==
  [][/\ (poller.pc = "request" /\ poller' # poller) =>
          /\ poller'.pc = "mark"
          /\ proxy_stats'[proxy_list[poller.i]] = poller'.metrics
     /\ (poller.pc = "mark" /\ poller' # poller) =>
          LET p == proxy_list[poller.i] IN
          IF poller.metrics # NoSnapshot
            THEN nodes'[p] = [healthy |-> TRUE, failures |-> 0]
            ELSE /\ nodes'[p].failures = nodes[p].failures + 1
                 /\ nodes'[p].healthy =
                      (nodes[p].healthy /\ nodes'[p].failures < max_failures)]_vars

\* C22: the polling thread never ends, and a new poll cycle starts only
\* after every configured proxy was polled, in the configured order: an
\* error while one proxy is polled does not keep the proxies after it from
\* being polled in the same cycle.
C22_EveryProxyPolledEachCycle ==
  [][/\ poller'.pc \in {"request", "mark", "except"}
     /\ (poller.pc = "mark" /\ poller' # poller) =>
          poller'.i = IF poller.i = Len(proxy_list) THEN 1 ELSE poller.i + 1
     /\ (poller.pc = "except" /\ poller' # poller) =>
          \/ poller'.i = poller.i + 1
          \/ poller.i = Len(proxy_list) /\ poller'.i = 1]_vars

\* C26: the round-robin cursor is updated by an atomic read-modify-write.
\* No call of pick_proxy uses a cursor value that another call has used and
\* not yet replaced, and every call that ends adds exactly one to the cursor,
\* so that N calls leave it at its initial value plus N.
C26_AtomicCursor ==
  [][\A t \in Handlers :
       /\ (handler[t].pc = "rr_index" /\ handler'[t].pc = "rr_load") =>
            \A u \in Handlers \ {t} :
              handler[u].pc \in {"rr_load", "rr_store"} => handler[u].k # current_index
       /\ (handler[t].pc = "rr_store" /\ handler'[t].pc = "picked") =>
            current_index' = current_index + 1]_vars

\* C27: a least_loaded call of pick_proxy that runs while the polling thread
\* replaces snapshots sees one value of each snapshot: the snapshot it found
\* present when it tested the key of a candidate is still present when it
\* reads the load of that candidate, and the call does not fail.
C27_AtomicMetricsView ==
  [][\A t \in Handlers :
       (handler[t].pc = "ll_read" /\ handler'[t] # handler[t]) =>
          /\ proxy_stats[handler[t].healthy_proxies[handler[t].i]] # NoSnapshot
          /\ handler'[t].pc # "raised"]_vars

\* C24: with proxies [P1, P2] under round robin, a forward to P1 that finds
\* P1 unreachable is answered PROXY_UNREACHABLE and adds one failure, and a
\* forward to P2 that P2 answers succeeds.  Once P1 has failed three times
\* with no success in between, get_healthy_nodes() does not include P1 as
\* long as P2 is healthy, and a request that arrives then is forwarded to P2.
C24_OfflineProxyExcluded ==
  [][(Len(proxy_list) = 2 /\ strategy = "round_robin") =>
       LET P1 == proxy_list[1]
           P2 == proxy_list[2]
           healthy == get_healthy_nodes(nodes')
       IN /\ (Forwarded /\ client.proxy = P1 /\ client'.reply.io = "refused") =>
               /\ client'.pc = "send"
               /\ client'.res.body = [kind |-> "object", status |-> "PROXY_UNREACHABLE"]
               /\ nodes'[P1].failures = nodes[P1].failures + 1
          /\ (Forwarded /\ client.proxy = P2 /\ ~FailedForward(client'.reply)) =>
               /\ client'.pc = "send"
               /\ client'.res.body = client'.reply.line.body
               /\ nodes'[P2].healthy
          /\ (streak'[P1] >= 3 /\ nodes'[P2].healthy) =>
               \A i \in 1..Len(healthy) : healthy[i] # P1
          /\ (client.pc = "idle" /\ client'.pc # "idle" /\ streak[P1] >= 3
                /\ nodes[P2].healthy) =>
               /\ client'.pc = "forward"
               /\ client'.proxy = P2]_vars

\* P1 has failed three times in a row, P2 is healthy, and a request whose
\* cursor value selects the first of two candidates has been given to P2
C24_Witness ==
  /\ Len(proxy_list) = 2
  /\ strategy = "round_robin"
  /\ streak[proxy_list[1]] >= 3
  /\ nodes[proxy_list[2]].healthy
  /\ client.pc = "forward"
  /\ client.proxy = proxy_list[2]
  /\ (current_index - 1) % 2 = 0

\* C25: a request line whose first word is not GET and which is not the
\* METRICS command is answered with status "WRONG_METHOD: <verb>", data "",
\* cache_hit false and the port of the proxy, whether the verb is followed
\* by nothing, by one word or by several.
C25_WrongMethod ==
  [][\A c \in Conns :
       LET h == conn[c] IN
       (Answers(c) /\ h.method \notin {"none", "GET"}) =>
         Response(h) = [status |-> "WRONG_METHOD: " \o h.method, data |-> "",
                        cache_hit |-> FALSE, node |-> port]]_vars

\* the entries a cache holds for key k: nodes of the list (LRU) or keys of
\* the store (TTL)
EntriesFor(l, st, k) ==
  IF cache_type = "lru"
    THEN Cardinality({i \in 1..Len(Order(l)) : Order(l)[i] = k})
    ELSE Cardinality({j \in DOMAIN st : j = k})

\* C28: two requests for the same key that have both missed and fetched
\* before the later of their sets have each made their own fetch, have each
\* added one to cache_misses and one to origin_fetches, and each call set;
\* after a set the cache holds one entry for the key, with the value of
\* that set, so that the later set decides.
C28_NotCoalesced ==
  [][\A c \in Conns : \A d \in Conns \ {c} :
       LET h == conn[c]
           g == conn[d]
       IN (/\ h.pc = "set" /\ conn'[c].pc = "respond"
           /\ g.pc \in {"set", "respond"} /\ g.kind = "GET" /\ ~g.found /\ g.status = "OK"
           /\ g.key = h.key) =>
            /\ \A x \in {h, g} :
                 /\ \E i \in 1..Len(x.calls) : x.calls[i] = "fetch"
                 /\ x.delta["cache_misses"] = 1
                 /\ x.delta["origin_fetches"] = 1
            /\ g.pc = "respond" => g.calls[Len(g.calls)] = "set"
            /\ PeekIn(lru', ttl_store', now', h.key) = <<h.value, TRUE>>
            /\ EntriesFor(lru', ttl_store', h.key) = 1]_vars

\* thread w returns from a get or a set in this step
CallReturns(w) == worker[w].pc \notin {"idle", "acquire", "size"} /\ worker'[w].pc = "idle"

\* C29: get and set calls that several threads make at the same time on one
\* TTLCache or one LRUCache behave as if they ran one after the other, in the
\* order in which they return: every call returns what it returns in that
\* sequential run, no call ends with an exception, and whenever no call holds
\* the lock the contents, and for LRU the recency order, are those of the
\* sequential run.
C29_Serialized ==
  [][/\ \A w \in Workers :
          CallReturns(w) =>
            /\ worker'[w].ret = serial'.ret
            /\ worker'[w].ret[1] # "raised"
     /\ lock' = NoOwner =>
          /\ ttl_store' = serial'.ttl
          /\ DOMAIN lru'.store = DOMAIN serial'.lru.store
          /\ Order(lru') = Order(serial'.lru)
          /\ \A k \in DOMAIN lru'.store : ValueOf(lru', k) = ValueOf(serial'.lru, k)]_vars

\* a thread is in the middle of a set that has to evict, another thread
\* waits for the lock with a get of the key that is being evicted
C29_Witness ==
  \E w \in Workers : \E u \in Workers \ {w} :
    /\ cache_type = "lru"
    /\ worker[w].pc = "evict"
    /\ size(lru) > capacity
    /\ lock = w
    /\ worker[u].pc = "acquire"
    /\ worker[u].op = "get"
    /\ worker[u].key = lru.heap[lru.heap[head].next].key

\* C30: a size() call that runs while other threads call get and set on an
\* LRUCache never returns more than the capacity.
C30_SizeWithinCapacity ==
  [][\A w \in Workers :
       (cache_type = "lru" /\ worker[w].pc = "size" /\ worker'[w].pc = "idle") =>
         worker'[w].len <= capacity]_vars

\* C23: under round robin, with proxies that answer every forward, cold
\* caches and an origin that holds the key, the i-th of the identical GET
\* requests sent one after the other (counted from 0) is handled by proxy
\* number i mod N of the configured list; every response is OK with the
\* origin's data and the address of that proxy as node; the first response
\* of each proxy has cache_hit false, and a response of a proxy that stored
\* the data no longer than the TTL ago has cache_hit true.
C23_EndToEndRoundRobin ==
  (strategy = "round_robin" /\ Len(proxy_list) > 0) =>
    \A i \in 1..Len(served) :
      LET e == served[i]
          earlier == {j \in 1..(i - 1) : served[j].proxy = e.proxy}
      IN /\ e.proxy = proxy_list[((i - 1) % Len(proxy_list)) + 1]
         /\ e.res.status = "OK"
         /\ e.res.data = origin_data
         /\ e.res.node = e.proxy
         /\ earlier = {} => ~e.res.cache_hit
         /\ (\E j \in earlier : ~served[j].res.cache_hit /\ e.at <= served[j].at + ttl) =>
              e.res.cache_hit

\* two proxies: the first request went to P1 and the second to P2, both
\* misses; the third is a hit at P1 and the fourth a hit at P2
C23_Witness ==
  /\ strategy = "round_robin"
  /\ Len(proxy_list) = 2
  /\ Len(served) = 4
  /\ served[1] = [proxy |-> proxy_list[1], at |-> 0,
                  res |-> [status |-> "OK", data |-> origin_data, cache_hit |-> FALSE,
                           node |-> proxy_list[1]]]
  /\ served[2].proxy = proxy_list[2] /\ ~served[2].res.cache_hit
  /\ served[3].proxy = proxy_list[1] /\ served[3].res.cache_hit
  /\ served[4].proxy = proxy_list[2] /\ served[4].res.cache_hit
  /\ client.pc = "send"
  /\ client.res.body.status = "OK"

(***************************************************************************)
(* Expired entries and re-written keys of the TTL cache (SpecTTL).         *)
(***************************************************************************)
\* the keys of the store whose expiry time has not passed at time t
Unexpired(store, t) == {k \in DOMAIN store : ~Expired(t, store[k].exp)}

\* C31: an entry whose expiry time has passed is absent from the observable
\* state: a get of its key returns (None, False) and removes it from the
\* store, and in every state size() counts only the entries that have not
\* expired.
C31_ExpiredAbsent ==
  [][/\ (/\ ttl_call'.op = "get"
         /\ ttl_call'.key \in DOMAIN ttl_store
         /\ Expired(now, ttl_store[ttl_call'.key].exp))
        => /\ ttl_call'.ret = <<None, FALSE>>
           /\ ttl_call'.key \notin DOMAIN ttl_store'
     /\ Cardinality(DOMAIN ttl_store') = Cardinality(Unexpired(ttl_store', now'))]_vars

\* C32: a set on a key that is present replaces the value and restarts the
\* expiry at (time of this set + ttl): the store then holds exactly the new
\* value with the new expiry, and a get later than the overwritten entry's
\* expiry but not later than the new one returns the new value with found =
\* True.
C32_SetRestartsExpiry ==
  [][/\ (ttl_call'.op = "set" /\ ttl_call'.key \in DOMAIN ttl_store)
        => ttl_store'[ttl_call'.key] = [value |-> ttl_call'.value, exp |-> now + ttl]
     /\ (/\ ttl_call'.op = "get"
         /\ ttl_call'.key \in DOMAIN ttl_last_set
         /\ ttl_last_set[ttl_call'.key].over # NoEntry
         /\ now > ttl_last_set[ttl_call'.key].over.exp
         /\ now <= ttl_last_set[ttl_call'.key].at + ttl)
        => ttl_call'.ret = <<ttl_last_set[ttl_call'.key].value, TRUE>>]_vars

\* C32 witness: a get has returned the second value of a key after the expiry
\* of the entry the second set overwrote, which held another value
C32_Witness ==
  /\ ttl_call.op = "get"
  /\ ttl_call.key \in DOMAIN ttl_last_set
  /\ ttl_last_set[ttl_call.key].over # NoEntry
  /\ ttl_last_set[ttl_call.key].over.value # ttl_last_set[ttl_call.key].value
  /\ now > ttl_last_set[ttl_call.key].over.exp
  /\ now <= ttl_last_set[ttl_call.key].at + ttl
  /\ ttl_call.ret = <<ttl_last_set[ttl_call.key].value, TRUE>>

(***************************************************************************)
(* Counters and responses of the proxy node (SpecProxy).                   *)
(***************************************************************************)
\* the record_* calls handle_connection makes for a GET, in order, up to
\* the response
RecordsOf(h) ==
  IF h.found THEN <<"record_request", "get", "record_hit">>
  ELSE <<"record_request", "get", "record_miss", "record_origin_fetch", "fetch">>

\* C33: when the response of a well-formed GET is written, the handler has
\* already made every increment for that request, in the order
\* total_requests, then cache_hits or cache_misses and origin_fetches, and
\* the counters a METRICS report reads from then on include the request:
\* each of its increments has raised its counter by one.
C33_CountedBeforeResponse ==
  [][\A c \in Conns :
       (Answers(c) /\ conn[c].kind = "GET") =>
         LET h == conn[c] IN
         /\ Len(h.calls) >= Len(RecordsOf(h))
         /\ SubSeq(h.calls, 1, Len(RecordsOf(h))) = RecordsOf(h)
         /\ h.delta["total_requests"] = 1
         /\ h.delta["cache_hits"] = (IF h.found THEN 1 ELSE 0)
         /\ h.delta["cache_misses"] = (IF h.found THEN 0 ELSE 1)
         /\ h.delta["origin_fetches"] = (IF h.found THEN 0 ELSE 1)
         /\ report(proxy_metrics').total_requests >= 1]_vars

(***************************************************************************)
(* Locks and I/O (SpecThreads).                                            *)
(***************************************************************************)
\* C34: no thread holds the cache lock or the registry lock while it is at
\* an I/O step (accept, recv, connect, send, readline); a lock that is held is
\* held by a thread inside the get, set, mark_healthy, mark_unhealthy,
\* is_healthy or get_healthy_nodes call that took it, so a thread waiting for
\* a lock never waits for a stalled peer.
C34_NoLockAcrossIO ==
  /\ \A t \in Threads :
       Instr(thread[t]).kind = "io" => \A l \in Locks : holder[l] # t
  /\ \A l \in Locks :
       holder[l] # NoOwner =>
         LET h == thread[holder[l]] IN
         /\ Instr(h).kind = "call"
         /\ Instr(h).lock = l
         /\ h.depth > 0

\* C34 witness: one thread waits for the origin's reply, a second one is
\* inside cache.set with the lock, and a third one waits for that lock
C34_Witness ==
  \E t, u, v \in Threads :
    /\ thread[t].role = "handle_connection" /\ thread[t].pc = "origin_read"
    /\ thread[u].role = "handle_connection" /\ thread[u].pc = "cache_set"
    /\ holder["cache"] = u
    /\ thread[v].role = "handle_connection" /\ thread[v].pc = "cache_get"
    /\ thread[v].depth = 0

(***************************************************************************)
(* The response of the load balancer to a client (SpecForward).            *)
(***************************************************************************)
\* C35: every client connection that delivers a request and for which a
\* proxy is selected ends with one response, a JSON text ended by a newline,
\* whatever the proxy does: the handler thread ends by sending it, never by
\* closing the connection without a response.
C35_ExactlyOneResponse ==
  [][(client.pc \in {"send", "raised"} /\ client'.pc = "idle" /\ client.proxy # NoProxy) =>
       /\ client.pc = "send"
       /\ json_loads(strip(client.res))
       /\ client.res.newline]_vars

(***************************************************************************)
(* Health recovery by the polling thread (SpecPoller).                     *)
(***************************************************************************)
\* no poll of proxy p is failing: the poll in progress has not raised and has
\* not returned None
AnswersPolls(p) ==
  proxy_list[poller.i] = p =>
    /\ poller.pc # "except"
    /\ poller.pc = "mark" => poller.metrics # NoSnapshot

\* C36: a poll that returns a snapshot marks the proxy healthy with failures
\* 0, which makes it a candidate of get_healthy_nodes again; and as the
\* polling thread keeps running, a proxy that from some point on answers its
\* polls is healthy again and again, without any forwarded traffic.
C36_HealthRecovery ==
  /\ [][(poller.pc = "mark" /\ poller' # poller /\ poller.metrics # NoSnapshot) =>
          LET p == proxy_list[poller.i] IN
          /\ nodes'[p] = [healthy |-> TRUE, failures |-> 0]
          /\ \E i \in 1..Len(get_healthy_nodes(nodes')) : get_healthy_nodes(nodes')[i] = p]_vars
  /\ \A p \in 1..NumProxies : <>[]AnswersPolls(p) => []<>nodes[p].healthy

\* C37: in every state of a proxy, the states in the middle of concurrently
\* handled requests included, cache_hits + cache_misses <= total_requests and
\* origin_fetches <= cache_misses.
C37_CounterOrder ==
  /\ proxy_metrics["cache_hits"] + proxy_metrics["cache_misses"]
       <= proxy_metrics["total_requests"]
  /\ proxy_metrics["origin_fetches"] <= proxy_metrics["cache_misses"]

(***************************************************************************)
(* Where the cached values come from (SpecProxy).                          *)
(***************************************************************************)
\* the entry the engine holds for key k, expired or not
Held(l, st, k) ==
  IF cache_type = "lru"
    THEN (IF k \in DOMAIN l.store THEN <<ValueOf(l, k), TRUE>> ELSE <<None, FALSE>>)
    ELSE (IF k \in DOMAIN st THEN <<st[k].value, TRUE>> ELSE <<None, FALSE>>)

\* distinct resource and key parts of a request line spell distinct cache keys
DistinctCacheKeys ==
  \A r1 \in Resources, r2 \in Resources, k1 \in KeyParts, k2 \in KeyParts :
    build_cache_key(r1, k1) = build_cache_key(r2, k2) => (r1 = r2 /\ k1 = k2)

\* C38: a cache hit for key k returns the value the cache holds for k, and
\* the cache comes to hold a value for k only by the set of a request for k
\* whose origin fetch returned that value with status OK: never after
\* NOT_FOUND or ORIGIN_FAILURE, and never a value fetched for another key
\* (distinct resource and key parts spell distinct cache keys).
C38_HitsComeFromOrigin ==
  [][/\ \A c \in Conns :
          LET h == conn[c] IN
          /\ (h.pc = "get" /\ conn'[c].pc = "record_hit") =>
               /\ <<conn'[c].value, TRUE>> = Held(lru, ttl_store, h.key)
               /\ conn'[c].value \in Values
          /\ (Answers(c) /\ h.kind = "GET" /\ h.found) =>
               Response(h) = build_response("OK", h.value, TRUE)
     /\ \A k \in CacheKeys :
          (/\ <<lru', ttl_store'>> # <<lru, ttl_store>>
           /\ Held(lru', ttl_store', k)[2]
           /\ Held(lru', ttl_store', k) # Held(lru, ttl_store, k)) =>
            \E d \in Conns :
              /\ conn[d].pc = "set" /\ conn'[d].pc = "respond"
              /\ conn[d].key = k
              /\ conn[d].value = Held(lru', ttl_store', k)[1]
              /\ conn[d].status = "OK"
              /\ conn[d].origin.io = "line"
              /\ conn[d].origin.status = "OK"
              /\ conn[d].origin.data = conn[d].value
     /\ DistinctCacheKeys]_vars

\* C38 witness: a lookup of key 2 has hit and returned "v2", which the cache
\* holds for key 2 from the one origin fetch made so far
C38_Witness ==
  \E c \in Conns :
    /\ conn[c].pc = "record_hit"
    /\ conn[c].key = 2
    /\ conn[c].value = "v2"
    /\ Held(lru, ttl_store, 2) = <<"v2", TRUE>>
    /\ proxy_metrics["origin_fetches"] = 1
    /\ proxy_metrics["cache_misses"] = 1

(***************************************************************************)
(* The structure of the LRU cache between calls (SpecLocked).              *)
(***************************************************************************)
\* the nodes met from node n by following `next` up to the tail sentinel, or
\* by following `prev` up to the head sentinel; NoNode stands for a chain
\* that leaves the objects or does not end within `fuel` steps
RECURSIVE NodesAfter(_, _, _)
NodesAfter(c, n, fuel) ==
  IF n = tail THEN <<>>
  ELSE IF fuel = 0 \/ n \notin DOMAIN c.heap THEN <<NoNode>>
  ELSE <<n>> \o NodesAfter(c, c.heap[n].next, fuel - 1)
RECURSIVE NodesBefore(_, _, _)
NodesBefore(c, n, fuel) ==
  IF n = head THEN <<>>
  ELSE IF fuel = 0 \/ n \notin DOMAIN c.heap THEN <<NoNode>>
  ELSE NodesBefore(c, c.heap[n].prev, fuel - 1) \o <<n>>

\* the store and the list of cache c describe the same entries
WellFormed(c) ==
  LET fwd == NodesAfter(c, c.heap[head].next, Cardinality(DOMAIN c.heap))
      bwd == NodesBefore(c, c.heap[tail].prev, Cardinality(DOMAIN c.heap))
      linked == {fwd[i] : i \in 1..Len(fwd)}
  IN /\ c.heap[head].prev = NoNode
     /\ c.heap[tail].next = NoNode
     /\ linked \cap {NoNode, head, tail} = {}
     /\ fwd = bwd
     /\ \A i \in 1..Len(fwd) : \A j \in 1..Len(fwd) :
          c.heap[fwd[i]].key = c.heap[fwd[j]].key => i = j
     /\ {c.heap[n].key : n \in linked} = DOMAIN c.store
     /\ \A n \in linked : c.store[c.heap[n].key] = n

\* C39: whenever no get or set is in progress on an LRUCache, the keys of the
\* store are exactly the keys of the nodes linked between the head and tail
\* sentinels, each key is in exactly one node, the store maps each key to
\* that node, and the next chain and the prev chain are mirror images.
C39_LRUStructure ==
  (cache_type = "lru" /\ lock = NoOwner) => WellFormed(lru)

\* C39 witness: between calls, after two sets and a get that promoted the
\* older entry, the list holds two nodes in the order of their latest use
C39_Witness ==
  /\ cache_type = "lru"
  /\ lock = NoOwner
  /\ \A w \in Workers : worker[w].pc = "idle"
  /\ issued = 3
  /\ Order(lru) = <<2, 1>>
  /\ \E w \in Workers : worker[w].ret = <<"v1", TRUE>>
  /\ WellFormed(lru)

====
